---- MODULE Spec2Model ----
(***************************************************************************)
(* WhyComment (whycomment-vscode): the suggestion store, the live-edit     *)
(* line tracker (onDocChanged), the anchor resolver                        *)
(* (resolveSuggestionLocations), the baseline snapshot and diff-hash cache *)
(* of analyzeUri, analyzeSelection, apply / ignore / clear-all.            *)
(*                                                                         *)
(* A text is a sequence of lines, a line a sequence of one-character       *)
(* strings.  A Suggestion is a JavaScript object: the store, the cache and *)
(* the arrays of a running pass hold REFERENCES to it, so the objects live *)
(* in a heap (objs) and every collection holds heap indices.               *)
(***************************************************************************)
EXTENDS Integers, Sequences, FiniteSets, Bags, TLC

VARIABLES
    doc,        \* file -> live document text (vscode.TextDocument)
    disk,       \* file -> text last saved, what `git diff HEAD` reads
    objs,       \* heap of Suggestion objects
    store,      \* SuggestionStore.byFile: file -> sequence of heap refs
    cache,      \* diff-hash cache: set of <<diff, sequence of heap refs>>
    prevText,   \* previousTextByFile: file -> <<>> (no entry) or <<text>>
    timers,     \* file -> the timers set for it and not yet fired or cleared
                \* (pending), and the one debounceTimers holds (entry)
    passes,     \* bag of analyzeUri / analyzeSelection calls suspended at an await
    npass,      \* number of passes started so far
    nedit,      \* number of user edits so far
    apiKey,     \* the text of the setting whycomment.apiKey
    rq          \* input/output of the stand-alone resolver runs (SpecResolve)

vars == <<doc, disk, objs, store, cache, prevText, timers, passes, npass, nedit, apiKey, rq>>

(***************************************************************************)
(* Bounds of the model.                                                    *)
(***************************************************************************)
MaxLines == 2
MaxPasses == 2
MaxEdits == 1
MaxItems == 1

Files == {"f", "g"}

\* line texts the user types in the orchestration model
LineA == <<"a">>
LineB == <<"b">>
LineTexts == {LineA, LineB}

\* whycomment.contextLines default
ContextLines == 1

Min(a, b) == IF a < b THEN a ELSE b
Max(a, b) == IF a > b THEN a ELSE b
Abs(a) == IF a < 0 THEN -a ELSE a

(***************************************************************************)
(* String primitives of JavaScript used by the code.                       *)
(***************************************************************************)
IsWs(c) == c \in {" ", "\t"}

RECURSIVE TrimStart(_)
TrimStart(s) == IF s # <<>> /\ IsWs(Head(s)) THEN TrimStart(Tail(s)) ELSE s

RECURSIVE TrimEnd(_)
TrimEnd(s) ==
    IF s # <<>> /\ IsWs(s[Len(s)]) THEN TrimEnd(SubSeq(s, 1, Len(s) - 1)) ELSE s

\* String.prototype.trim
Trim(s) == TrimEnd(TrimStart(s))

\* String.prototype.includes
Includes(hay, needle) ==
    \E i \in 0..(Len(hay) - Len(needle)) : SubSeq(hay, i + 1, i + Len(needle)) = needle

\* String.prototype.startsWith
StartsWith(s, p) == Len(p) <= Len(s) /\ SubSeq(s, 1, Len(p)) = p

\* the line comment token of the document's language ('#' family)
Token == <<"#">>

(***************************************************************************)
(* resolveSuggestionLocations                                              *)
(***************************************************************************)
\* s.anchor && s.anchor.trim().length > 0   (<<>> stands for a missing anchor)
HasAnchor(anchor) == Trim(anchor) # <<>>

\* s.anchor.replace(/^\+|^-|^\s/, '').trim(): one leading marker is removed
Needle(anchor) ==
    Trim(IF anchor # <<>> /\ (Head(anchor) \in {"+", "-"} \/ IsWs(Head(anchor)))
         THEN Tail(anchor) ELSE anchor)

\* lines[i].trim() === needle || lines[i].includes(needle)
LineMatches(text, needle) == Trim(text) = needle \/ Includes(text, needle)

\* the candidates array, in ascending order of index (0-based)
RECURSIVE CandidatesFrom(_, _, _)
CandidatesFrom(lines, needle, i) ==
    IF i >= Len(lines) THEN <<>>
    ELSE (IF LineMatches(lines[i + 1], needle) THEN <<i>> ELSE <<>>)
         \o CandidatesFrom(lines, needle, i + 1)

Candidates(lines, needle) == CandidatesFrom(lines, needle, 0)

\* the reducer: Math.abs(cur - s.line) < Math.abs(best - s.line) ? cur : best
CloserWrongTie(best, cur, line) == IF Abs(cur - line) <= Abs(best - line) THEN cur ELSE best
Closer(best, cur, line) == IF Abs(cur - line) < Abs(best - line) THEN cur ELSE best

\* candidates.reduce(..., candidates[0])
RECURSIVE ReduceClosest(_, _, _)
ReduceClosest(cands, best, line) ==
    IF cands = <<>> THEN best
    ELSE ReduceClosest(Tail(cands), Closer(best, Head(cands), line), line)

\* Math.min(Math.max(0, s.line), doc.lineCount - 1)
ClampNoFloor(line, lineCount) == Min(line, lineCount - 1)
Clamp(line, lineCount) == Min(Max(0, line), lineCount - 1)

\* the new value of s.line for one suggestion
ResolveLineNoAnchor(lines, line, anchor) == Clamp(line, Len(lines))
ResolveLine(lines, line, anchor) ==
    IF HasAnchor(anchor)
    THEN LET cands == Candidates(lines, Needle(anchor))
         IN  IF cands # <<>> THEN ReduceClosest(cands, cands[1], line)
             ELSE Clamp(line, Len(lines))
    ELSE Clamp(line, Len(lines))

\* resolveSuggestionLocations: every item gets its new line; when the
\* document cannot be opened the catch returns the items as they came
resolveSuggestionLocations(lines, opens, items) ==
    IF opens
    THEN [i \in 1..Len(items) |->
             [items[i] EXCEPT !.line = ResolveLine(lines, items[i].line, items[i].anchor)]]
    ELSE items

(***************************************************************************)
(* onDocChanged: the line of one suggestion after one content change       *)
(***************************************************************************)
ShiftedLineNoSkip(o, start, end, added) ==
    IF o.applied \/ o.ignored THEN o.line
    ELSE IF o.line > end THEN o.line + (added - (end - start))
    ELSE IF o.line >= start /\ o.line <= end THEN Max(0, start + added)
    ELSE o.line

ShiftedLineAddedOnly(o, start, end, added) ==
    IF added - (end - start) = 0 \/ o.applied \/ o.ignored THEN o.line
    ELSE IF o.line > end THEN o.line + added
    ELSE IF o.line >= start /\ o.line <= end THEN Max(0, start + added)
    ELSE o.line

\* (variant that snaps a suggestion inside the range to the end of the range)
ShiftedLineSnapToEnd(o, start, end, added) ==
    LET removed == end - start
        delta == added - removed
    IN  IF delta = 0 THEN o.line
        ELSE IF o.applied \/ o.ignored THEN o.line
        ELSE IF o.line > end THEN o.line + delta
        ELSE IF o.line >= start /\ o.line <= end THEN Max(0, end)
        ELSE o.line

ShiftedLine(o, start, end, added) ==
    LET removed == end - start
        delta == added - removed
    IN  IF delta = 0 THEN o.line
        ELSE IF o.applied \/ o.ignored THEN o.line
        ELSE IF o.line > end THEN o.line + delta
        ELSE IF o.line >= start /\ o.line <= end THEN Max(0, start + added)
        ELSE o.line

(***************************************************************************)
(* Unified diff text.  A diff is a sequence of lines; a line is kept as    *)
(* its first character t and what the parsers read of the rest: for a      *)
(* hunk header the numbers n = <<oldStart, oldCount, newStart, newCount>>  *)
(* (a count of -1: the count is not written, `@@ -3 +3,2 @@`), for any     *)
(* other line the text s after the first character.                        *)
(***************************************************************************)
HunkHeader(os, oc, ns, nc) == [t |-> "@", n |-> <<os, oc, ns, nc>>, s |-> <<>>]
DiffLine(t, text) == [t |-> t, n |-> <<>>, s |-> text]

RECURSIVE CommonPrefix(_, _)
CommonPrefix(a, b) ==
    IF a # <<>> /\ b # <<>> /\ Head(a) = Head(b)
    THEN 1 + CommonPrefix(Tail(a), Tail(b)) ELSE 0

RECURSIVE CommonSuffix(_, _)
CommonSuffix(a, b) ==
    IF a # <<>> /\ b # <<>> /\ a[Len(a)] = b[Len(b)]
    THEN 1 + CommonSuffix(SubSeq(a, 1, Len(a) - 1), SubSeq(b, 1, Len(b) - 1)) ELSE 0

Tagged(t, lines) == [i \in 1..Len(lines) |-> DiffLine(t, lines[i])]

\* The hunks of a diff from old to new with ctx lines of context: the common
\* head and tail are context, what lies between is removed, then added.
\* writeOne = FALSE leaves a count of 1 unwritten, as git does.
Hunks(old, new, ctx, writeOne) ==
    LET p == CommonPrefix(old, new)
        q == CommonSuffix(SubSeq(old, p + 1, Len(old)), SubSeq(new, p + 1, Len(new)))
        rem == SubSeq(old, p + 1, Len(old) - q)
        add == SubSeq(new, p + 1, Len(new) - q)
        cb == Min(ctx, p)
        ca == Min(ctx, q)
        oc == cb + Len(rem) + ca
        nc == cb + Len(add) + ca
        os == IF oc = 0 THEN p ELSE p - cb + 1
        ns == IF nc = 0 THEN p ELSE p - cb + 1
        wr(c) == IF c = 1 /\ ~writeOne THEN -1 ELSE c
    IN  IF rem = <<>> /\ add = <<>> THEN <<>>
        ELSE <<HunkHeader(os, wr(oc), ns, wr(nc))>>
             \o Tagged(" ", SubSeq(new, p - cb + 1, p))
             \o Tagged("-", rem)
             \o Tagged("+", add)
             \o Tagged(" ", SubSeq(new, Len(new) - q + 1, Len(new) - q + ca))

\* createTwoFilesPatch('prev', 'cur', prevText, currentText, '', '', {context})
\* of the `diff` package: the file header is always written, every hunk
\* header carries both counts, the text ends with a line break.
TwoFilesPatch(old, new) ==
    <<DiffLine("=", <<"=">>), DiffLine("-", <<"-", "-", " ", "prev">>),
      DiffLine("+", <<"+", "+", " ", "cur">>)>>
    \o Hunks(old, new, ContextLines, TRUE)
    \o <<DiffLine("", <<>>)>>

\* HEAD version of every file (the files are tracked)
HeadText == <<LineA, LineA>>

\* getDiffForFile: stdout of `git diff --unified=<ctx> --no-color HEAD -- rel`;
\* no output when the saved file equals HEAD.
GitDiffText(f, saved) ==
    LET h == Hunks(HeadText, saved, ContextLines, FALSE)
    IN  IF h = <<>> THEN <<>>
        ELSE <<DiffLine("d", <<"git", f>>), DiffLine("i", <<>>),
               DiffLine("-", <<"-", "-", " ", f>>), DiffLine("+", <<"+", "+", " ", f>>)>>
             \o h \o <<DiffLine("", <<>>)>>

\* !diff || !diff.trim()
IsBlankDiff(diff) == \A i \in 1..Len(diff) : diff[i].t = "" \/ (IsWs(diff[i].t) /\ Trim(diff[i].s) = <<>>)

\* /^@@\s+-(\d+),(\d+)\s+\+(\d+),(\d+)\s+@@/ : both counts must be written
HeaderMatches(l) == l.t = "@" /\ l.n # <<>> /\ l.n[2] # -1 /\ l.n[4] # -1

\* addedLinesFromUnifiedDiff: the walk over the lines, from line i on
RECURSIVE AddedWalk(_, _, _, _)
AddedWalk(diff, i, inHunk, newLine) ==
    IF i > Len(diff) THEN {}
    ELSE LET l == diff[i]
         IN  IF HeaderMatches(l) THEN AddedWalk(diff, i + 1, TRUE, l.n[3])
             ELSE IF ~inHunk THEN AddedWalk(diff, i + 1, inHunk, newLine)
             ELSE IF l.t = "" THEN AddedWalk(diff, i + 1, inHunk, newLine)
             ELSE IF l.t = " " THEN AddedWalk(diff, i + 1, inHunk, newLine + 1)
             ELSE IF l.t = "+" THEN {newLine - 1} \cup AddedWalk(diff, i + 1, inHunk, newLine + 1)
             ELSE IF l.t = "-" THEN AddedWalk(diff, i + 1, inHunk, newLine)
             ELSE IF l.t = "@" THEN AddedWalk(diff, i + 1, FALSE, newLine)
             ELSE AddedWalk(diff, i + 1, inHunk, newLine)

addedLinesFromUnifiedDiff(diff) == AddedWalk(diff, 1, FALSE, 0)

\* parseUnifiedDiff + annotateDiffWithNewLines of llm.ts: the entries
\* <<new-file line number, text>> shown to the analyzer, from line i on.
\* A line is taken into the current hunk when it starts with '+', '-' or ' '.
RECURSIVE AnnotateWalk(_, _, _, _)
AnnotateWalk(diff, i, inHunk, newLine) ==
    IF i > Len(diff) THEN <<>>
    ELSE LET l == diff[i]
         IN  IF HeaderMatches(l) THEN AnnotateWalk(diff, i + 1, TRUE, l.n[3])
             ELSE IF ~inHunk THEN AnnotateWalk(diff, i + 1, inHunk, newLine)
             ELSE IF l.t = " " THEN AnnotateWalk(diff, i + 1, inHunk, newLine + 1)
             ELSE IF l.t = "+" THEN <<<<newLine, l.s>>>> \o AnnotateWalk(diff, i + 1, inHunk, newLine + 1)
             ELSE AnnotateWalk(diff, i + 1, inHunk, newLine)

\* (variant in which a removed line advances the counter as well)
RECURSIVE AnnotateWalkCountingRemoved(_, _, _, _)
AnnotateWalkCountingRemoved(diff, i, inHunk, newLine) ==
    IF i > Len(diff) THEN <<>>
    ELSE LET l == diff[i]
         IN  IF HeaderMatches(l) THEN AnnotateWalkCountingRemoved(diff, i + 1, TRUE, l.n[3])
             ELSE IF ~inHunk THEN AnnotateWalkCountingRemoved(diff, i + 1, inHunk, newLine)
             ELSE IF l.t \in {" ", "-"} THEN AnnotateWalkCountingRemoved(diff, i + 1, inHunk, newLine + 1)
             ELSE IF l.t = "+"
                  THEN <<<<newLine, l.s>>>> \o AnnotateWalkCountingRemoved(diff, i + 1, inHunk, newLine + 1)
             ELSE AnnotateWalkCountingRemoved(diff, i + 1, inHunk, newLine)

annotateCountingRemoved(diff) == AnnotateWalkCountingRemoved(diff, 1, FALSE, 0)
annotateDiffWithNewLines(diff) == AnnotateWalk(diff, 1, FALSE, 0)

(***************************************************************************)
(* filterAlreadyExplained                                                  *)
(***************************************************************************)
\* how many lines above the target are scanned
ScanAbove == 3

\* (variant without the early stop at a line of code)
RECURSIVE ExplainedFromNoBarrier(_, _, _)
ExplainedFromNoBarrier(lines, line, d) ==
    IF d > ScanAbove \/ line - d < 0 THEN FALSE
    ELSE IF Includes(lines[line - d + 1], Token) THEN TRUE
    ELSE ExplainedFromNoBarrier(lines, line, d + 1)

\* the scan of one suggestion, at distance d above its (clamped) line
RECURSIVE ExplainedFrom(_, _, _)
ExplainedFrom(lines, line, d) ==
    IF d > ScanAbove \/ line - d < 0 THEN FALSE
    ELSE LET text == lines[line - d + 1]
         IN  IF Includes(text, Token) THEN TRUE
             ELSE IF d > 0 /\ Trim(text) # <<>> /\ ~StartsWith(Trim(text), Token) THEN FALSE
             ELSE ExplainedFrom(lines, line, d + 1)

Explained(lines, line) == ExplainedFrom(lines, Clamp(line, Len(lines)), 0)

\* filterAlreadyExplained: the items that are not explained, in their order;
\* when the document cannot be opened the catch returns the items as they came
filterAlreadyExplained(lines, opens, items) ==
    IF opens THEN SelectSeq(items, LAMBDA o : ~Explained(lines, o.line)) ELSE items

(***************************************************************************)
(* Suggestion objects and the collections of references to them            *)
(***************************************************************************)
\* what the analyzer may answer for one item: parseLLMResponse reads a line
\* and an anchor (<<>>: none); message and suggestedComment are one text
CandLines == 0..MaxLines
Anchors == {<<>>, LineA, LineB}
Candidate == [line : CandLines, anchor : Anchors]
Responses == UNION {[1..n -> Candidate] : n \in 0..MaxItems}

\* parseLLMResponse: the object built for one item; the id is the sha1 of
\* uri, line, message and suggestedComment, taken to be injective
NewSuggestion(f, c) ==
    [id |-> <<f, c.line, "why">>, uri |-> f, line |-> c.line, msg |-> "why",
     anchor |-> c.anchor, applied |-> FALSE, ignored |-> FALSE]

IsActive(o) == ~o.applied /\ ~o.ignored

RECURSIVE SortedSeq(_)
SortedSeq(S) ==
    IF S = {} THEN <<>>
    ELSE LET m == CHOOSE x \in S : \A y \in S : x <= y
         IN  <<m>> \o SortedSeq(S \ {m})

\* appendAndDedupe: a Map keyed by id keeps the position of the first record
\* with an id and the value of the last one
AppendNoDedupe(existing, incoming, heap) == existing \o incoming
appendAndDedupe(existing, incoming, heap) ==
    LET all == existing \o incoming
        first == {i \in 1..Len(all) : \A j \in 1..(i - 1) : heap[all[j]].id # heap[all[i]].id}
        last(i) == CHOOSE k \in i..Len(all) :
                      /\ heap[all[k]].id = heap[all[i]].id
                      /\ \A j \in (k + 1)..Len(all) : heap[all[j]].id # heap[all[i]].id
        order == SortedSeq(first)
    IN  [n \in 1..Len(order) |-> all[last(order[n])]]

\* analyzeUri, the merge: suggestions on a line that already carries an
\* active suggestion are dropped, the rest is merged by id
MergeReplacing(existing, suggestions, heap) == appendAndDedupe(<<>>, suggestions, heap)
MergeNoLineFilter(existing, suggestions, heap) == appendAndDedupe(existing, suggestions, heap)
MergeIncoming(existing, suggestions, heap) ==
    LET existingLines == {heap[existing[i]].line :
                             i \in {j \in 1..Len(existing) : IsActive(heap[existing[j]])}}
        filteredIncoming == SelectSeq(suggestions, LAMBDA r : heap[r].line \notin existingLines)
    IN  appendAndDedupe(existing, filteredIncoming, heap)

\* cache.get / cache.set
CacheHas(key) == \E e \in cache : e[1] = key
CacheGet(key) == (CHOOSE e \in cache : e[1] = key)[2]
CachePut(key, refs) == {e \in cache : e[1] # key} \cup {<<key, refs>>}

\* filterToAddedLines
filterToAddedLines(diff, line) == line \in addedLinesFromUnifiedDiff(diff)

(***************************************************************************)
(* The state machine                                                       *)
(***************************************************************************)
Refs(slot) == {slot[i] : i \in 1..Len(slot)}

\* a suspended call: kind "uri" (analyzeUri) waits for git (stage "git") or
\* for the analyzer (stage "llm"); kind "sel" (analyzeSelection) waits for
\* the analyzer.  text and diff are the locals currentText and diff that the
\* call still reads after the await, lo/hi the selected lines.
Pass(kind, f, text, stage, diff, lo, hi) ==
    [kind |-> kind, file |-> f, text |-> text,
     stage |-> stage, diff |-> diff, lo |-> lo, hi |-> hi]

Suspend(bag, p) == bag (+) SetToBag({p})
Resume(bag, p) == bag (-) SetToBag({p})

\* The timers of one file.  A timer handle is a positive number; entry is
\* the handle that debounceTimers holds for the file, 0 when it holds none
\* or one that has fired (clearTimeout of a fired timer does nothing).
NoTimer == [pending |-> {}, entry |-> 0]

\* clearTimeout(debounceTimers.get(key))
KeepTimeout(t) == t
ClearTimeout(t) == [t EXCEPT !.pending = t.pending \ {t.entry}]

\* setTimeout(...) and debounceTimers.set(key, timer): a timer with a handle
\* that no pending timer of the file has
SetTimeout(t) ==
    LET h == CHOOSE n \in 1..(Cardinality(t.pending) + 1) :
                 /\ n \notin t.pending
                 /\ \A m \in 1..(n - 1) : m \in t.pending
    IN  [pending |-> t.pending \cup {h}, entry |-> h]

\* the callback of the timer h runs
Fired(t, h) == [pending |-> t.pending \ {h}, entry |-> IF t.entry = h THEN 0 ELSE t.entry]

\* no stand-alone resolver run
\* whycomment.apiKey: not set, white space only, a key
SomeKey == <<"k">>
ApiKeys == {<<>>, <<" ">>, SomeKey}

\* const llmKey = cfg.apiKey?.trim(); if (llmKey) ...
LlmKeyUntrimmed(key) == key
LlmKey(key) == Trim(key)
HasKey == LlmKey(apiKey) # <<>>

NoRq == [lines |-> <<>>, opens |-> TRUE, items |-> <<>>, out |-> <<>>, done |-> FALSE]

\* the working copy when the extension is activated: one line changed
WorkText == <<LineA, LineB>>

Init ==
    /\ doc = [f \in Files |-> WorkText]
    /\ disk = [f \in Files |-> WorkText]
    /\ objs = <<>>
    /\ store = [f \in Files |-> <<>>]
    /\ cache = {}
    /\ prevText = [f \in Files |-> <<>>]
    /\ timers = [f \in Files |-> NoTimer]
    /\ passes = EmptyBag
    /\ npass = 0
    /\ nedit = 0
    /\ apiKey \in ApiKeys
    /\ rq = NoRq

\* the document after the range of lines start..end is replaced by new
Replaced(lines, start, end, new) ==
    SubSeq(lines, 1, start) \o new \o SubSeq(lines, end + 2, Len(lines))

\* onDocChanged: the heap after one change of file f
onDocChanged(heap, slot, start, end, added) ==
    [r \in 1..Len(heap) |->
        IF r \in Refs(slot)
        THEN [heap[r] EXCEPT !.line = ShiftedLine(heap[r], start, end, added)]
        ELSE heap[r]]

\* The user edits file f: the text between a position in line start and a
\* position in line end is replaced by a text with Len(new) - 1 line breaks;
\* VS Code delivers the change to onDocChanged.
Edit(f, start, end, new) ==
    /\ start \in 0..(Len(doc[f]) - 1)
    /\ end \in start..(Len(doc[f]) - 1)
    /\ nedit' = nedit + 1
    /\ doc' = [doc EXCEPT ![f] = Replaced(doc[f], start, end, new)]
    /\ objs' = onDocChanged(objs, store[f], start, end, Len(new) - 1)
    /\ UNCHANGED <<disk, store, cache, prevText, timers, passes, npass, apiKey, rq>>

\* onDidSaveTextDocument -> scheduleAnalyze: the file's timer is replaced
scheduleAnalyze(f) ==
    /\ disk' = [disk EXCEPT ![f] = doc[f]]
    /\ timers' = [timers EXCEPT ![f] = SetTimeout(ClearTimeout(timers[f]))]
    /\ UNCHANGED <<doc, objs, store, cache, prevText, passes, npass, nedit, apiKey, rq>>

\* analyzeUri, lines 373-382: merge, then advance the baseline
Complete(f, text, suggestions, heap, newCache, rest) ==
    /\ objs' = heap
    /\ cache' = newCache
    /\ store' = [store EXCEPT ![f] = MergeIncoming(store[f], suggestions, heap)]
    /\ prevText' = [prevText EXCEPT ![f] = <<text>>]
    /\ passes' = rest

\* the document that resolveSuggestionLocations and filterAlreadyExplained
\* open: the live one
LiveLinesAtDispatch(p) == p.text
LiveLines(p) == doc[p.file]

\* analyzeUri, lines 364-370, for the items the analyzer returned: the new
\* objects that survive resolution and the two filters
FreshObjects(f, items, lines, diff) ==
    LET parsed == [i \in 1..Len(items) |-> NewSuggestion(f, items[i])]
        resolved == resolveSuggestionLocations(lines, TRUE, parsed)
        unexplained == SelectSeq(resolved, LAMBDA o : ~Explained(lines, o.line))
    IN  SelectSeq(unexplained, LAMBDA o : filterToAddedLines(diff, o.line))

FreshComplete(f, text, diff, items, lines, rest) ==
    LET new == FreshObjects(f, items, lines, diff)
        refs == [i \in 1..Len(new) |-> Len(objs) + i]
    IN  Complete(f, text, refs, objs \o new, CachePut(diff, refs), rest)

\* analyzeUri from line 337 on, once the diff is there
AfterDiffKeepsSlot(f, text, diff, rest) ==
    IF IsBlankDiff(diff)
    THEN /\ passes' = rest
         /\ UNCHANGED <<objs, store, cache, prevText>>
    ELSE IF CacheHas(diff)
    THEN Complete(f, text, CacheGet(diff), objs, cache, rest)
    ELSE IF HasKey /\ annotateDiffWithNewLines(diff) # <<>>
    THEN /\ passes' = Suspend(rest, Pass("uri", f, text, "llm", diff, 0, 0))
         /\ UNCHANGED <<objs, store, cache, prevText>>
    ELSE FreshComplete(f, text, diff, <<>>, doc[f], rest)
AfterDiff(f, text, diff, rest) ==
    IF IsBlankDiff(diff)
    THEN /\ store' = [store EXCEPT ![f] = <<>>]
         /\ passes' = rest
         /\ UNCHANGED <<objs, cache, prevText>>
    ELSE IF CacheHas(diff)
    THEN Complete(f, text, CacheGet(diff), objs, cache, rest)
    ELSE IF HasKey /\ annotateDiffWithNewLines(diff) # <<>>
    THEN /\ passes' = Suspend(rest, Pass("uri", f, text, "llm", diff, 0, 0))
         /\ UNCHANGED <<objs, store, cache, prevText>>
    ELSE FreshComplete(f, text, diff, <<>>, doc[f], rest)

\* the diff of the baseline policy when a snapshot exists
SnapshotDiffReversed(f) == TwoFilesPatch(doc[f], prevText[f][1])
SnapshotDiff(f) == TwoFilesPatch(prevText[f][1], doc[f])

\* the debounce timer of f fires: analyzeUri runs up to its first await
TimerFires(f) ==
    /\ \E h \in timers[f].pending : timers' = [timers EXCEPT ![f] = Fired(timers[f], h)]
    /\ npass' = npass + 1
    /\ IF prevText[f] # <<>>
       THEN AfterDiff(f, doc[f], SnapshotDiff(f), passes)
       ELSE /\ passes' = Suspend(passes, Pass("uri", f, doc[f], "git", <<>>, 0, 0))
            /\ UNCHANGED <<objs, store, cache, prevText>>
    /\ UNCHANGED <<doc, disk, nedit, apiKey, rq>>

\* getDiffForFile answers
GitReturns(p) ==
    /\ BagIn(p, passes) /\ p.stage = "git"
    /\ AfterDiff(p.file, p.text, GitDiffText(p.file, disk[p.file]), Resume(passes, p))
    /\ UNCHANGED <<doc, disk, timers, npass, nedit, apiKey, rq>>

\* getDiffForFile throws (no workspace folder, no repository, git fails):
\* the catch of analyzeUri reports it
GitFailsAsBlankDiff(p) ==
    /\ BagIn(p, passes) /\ p.stage = "git"
    /\ AfterDiff(p.file, p.text, <<>>, Resume(passes, p))
    /\ UNCHANGED <<doc, disk, timers, npass, nedit, apiKey, rq>>
GitFails(p) ==
    /\ BagIn(p, passes) /\ p.stage = "git"
    /\ passes' = Resume(passes, p)
    /\ UNCHANGED <<doc, disk, objs, store, cache, prevText, timers, npass, nedit, apiKey, rq>>

\* analyzeWithLLM answers analyzeUri with the parsed items (none when the
\* request failed)
LlmReturns(p, items) ==
    /\ BagIn(p, passes) /\ p.kind = "uri" /\ p.stage = "llm"
    /\ items \in Responses
    /\ FreshComplete(p.file, p.text, p.diff, items, LiveLines(p), Resume(passes, p))
    /\ UNCHANGED <<doc, disk, timers, npass, nedit, apiKey, rq>>

\* analyzeSelection up to its await: a minimal diff of the selected lines
SelectionDiff(lines, lo, hi) ==
    <<HunkHeader(lo + 1, hi - lo + 1, lo + 1, hi - lo + 1)>>
    \o Tagged("+", SubSeq(lines, lo + 1, hi + 1))

analyzeSelection(f, lo, hi) ==
    /\ HasKey
    /\ lo \in 0..(Len(doc[f]) - 1)
    /\ hi \in lo..(Len(doc[f]) - 1)
    /\ npass' = npass + 1
    /\ annotateDiffWithNewLines(SelectionDiff(doc[f], lo, hi)) # <<>>
    /\ passes' = Suspend(passes, Pass("sel", f, <<>>, "llm", <<>>, lo, hi))
    /\ UNCHANGED <<doc, disk, objs, store, cache, prevText, timers, nedit, apiKey, rq>>

\* analyzeWithLLM answers analyzeSelection
SelectionReturns(p, items) ==
    /\ BagIn(p, passes) /\ p.kind = "sel"
    /\ items \in Responses
    /\ LET parsed == [i \in 1..Len(items) |-> NewSuggestion(p.file, items[i])]
           resolved == resolveSuggestionLocations(LiveLines(p), TRUE, parsed)
           filtered == SelectSeq(resolved, LAMBDA o : o.line >= p.lo /\ o.line <= p.hi)
           refs == [i \in 1..Len(filtered) |-> Len(objs) + i]
       IN  /\ objs' = objs \o filtered
           /\ store' = IF filtered = <<>> THEN store
                       ELSE [store EXCEPT ![p.file] =
                                appendAndDedupe(store[p.file], refs, objs \o filtered)]
    /\ passes' = Resume(passes, p)
    /\ UNCHANGED <<doc, disk, cache, prevText, timers, npass, nedit, apiKey, rq>>

\* The request of analyzeWithLLM fails (network, HTTP status, no fetch): its
\* catch warns and returns [], and the caller goes on as with an answer
\* without items
LlmFails(p) ==
    \/ LlmReturns(p, <<>>)
    \/ SelectionReturns(p, <<>>)

\* SuggestionStore.update: replace the record with the id of s in the slot
\* of s.uri, or push s
StoreUpdate(st, heap, r) ==
    LET f == heap[r].uri
        slot == st[f]
        hit == {i \in 1..Len(slot) : heap[slot[i]].id = heap[r].id}
    IN  [st EXCEPT ![f] =
            IF hit # {} THEN [slot EXCEPT ![CHOOSE i \in hit : \A j \in hit : i <= j] = r]
            ELSE Append(slot, r)]

\* what the tree view lists: collectAllSuggestions
ListedRefs == {r \in UNION {Refs(store[f]) : f \in Files} : IsActive(objs[r])}

\* items.find(x => x.line === line0), as a set of at most one ref
FindAtLine(slot, line) ==
    LET hit == {i \in 1..Len(slot) : objs[slot[i]].line = line}
    IN  IF hit = {} THEN {} ELSE {slot[CHOOSE i \in hit : \A j \in hit : i <= j]}

FindActive(slot) ==
    LET hit == {i \in 1..Len(slot) : IsActive(objs[slot[i]])}
    IN  IF hit = {} THEN {} ELSE {slot[CHOOSE i \in hit : \A j \in hit : i <= j]}

\* targetText.match(/^\s*/)[0]
IndentOf(text) == SubSeq(text, 1, Len(text) - Len(TrimStart(text)))

\* the text of the suggested comment
CommentText == <<"w">>

\* insertCommentAbove, then s.applied = true; store.update(s).  The insertion
\* is a document change and reaches onDocChanged before the edit resolves.
ApplyRef(r) ==
    LET f == objs[r].uri
        target == Clamp(objs[r].line, Len(doc[f]))
        comment == IndentOf(doc[f][target + 1]) \o Token \o <<" ">> \o CommentText
        shifted == onDocChanged(objs, store[f], target, target, 1)
        heap == [shifted EXCEPT ![r].applied = TRUE]
    IN  /\ Len(doc[f]) < MaxLines
        /\ doc' = [doc EXCEPT ![f] =
                      SubSeq(doc[f], 1, target) \o <<comment>> \o SubSeq(doc[f], target + 1, Len(doc[f]))]
        /\ objs' = heap
        /\ store' = StoreUpdate(store, heap, r)
        /\ UNCHANGED <<disk, cache, prevText, timers, passes, npass, nedit, apiKey, rq>>

\* applySuggestion from a tree item
applySuggestion(r) ==
    /\ r \in ListedRefs
    /\ ApplyRef(r)

\* applySuggestion without an item: the suggestion on the cursor line of
\* the active editor, else the first one of the file
applySuggestionAtCursor(f, line) ==
    /\ line \in 0..(Len(doc[f]) - 1)
    /\ store[f] # <<>>
    /\ LET found == FindAtLine(store[f], line)
       IN  ApplyRef(IF found # {} THEN CHOOSE r \in found : TRUE ELSE store[f][1])

IgnoreRef(r) ==
    LET heap == [objs EXCEPT ![r].ignored = TRUE]
    IN  /\ objs' = heap
        /\ store' = StoreUpdate(store, heap, r)
        /\ UNCHANGED <<doc, disk, cache, prevText, timers, passes, npass, nedit, apiKey, rq>>

\* ignoreSuggestion from a tree item
ignoreSuggestion(r) ==
    /\ r \in ListedRefs
    /\ IgnoreRef(r)

\* ignoreSuggestion without an item
ignoreSuggestionAtCursor(f, line) ==
    /\ line \in 0..(Len(doc[f]) - 1)
    /\ LET found == FindAtLine(store[f], line)
           pick == IF found # {} THEN found ELSE FindActive(store[f])
       IN  /\ pick # {}
           /\ IgnoreRef(CHOOSE r \in pick : TRUE)

\* clearAllSuggestions, confirmed by the user
clearAllSuggestions ==
    /\ store' = [f \in Files |-> <<>>]
    /\ UNCHANGED <<doc, disk, objs, cache, prevText, timers, passes, npass, nedit, apiKey, rq>>

\* the texts an edit can put in place of the replaced lines
NewLines == UNION {[1..n -> LineTexts] : n \in 1..MaxLines}

\* the file the user works on
MainFiles == {"f"}

\* the user makes at most MaxEdits edits and no text longer than MaxLines
EditAllowed(f, start, end, new) ==
    /\ nedit < MaxEdits
    /\ start <= end /\ end < Len(doc[f])
    /\ Len(Replaced(doc[f], start, end, new)) <= MaxLines

Next ==
    \/ \E f \in MainFiles, start \in 0..(MaxLines - 1), end \in 0..(MaxLines - 1), new \in NewLines :
          EditAllowed(f, start, end, new) /\ Edit(f, start, end, new)
    \/ \E f \in MainFiles : scheduleAnalyze(f)
    \/ \E f \in MainFiles : npass < MaxPasses /\ TimerFires(f)
    \/ \E p \in BagToSet(passes) : GitReturns(p)
    \/ \E p \in BagToSet(passes) : GitFails(p)
    \/ \E p \in BagToSet(passes), items \in Responses : LlmReturns(p, items)
    \/ \E f \in MainFiles, lo \in 0..(MaxLines - 1), hi \in 0..(MaxLines - 1) :
          npass < MaxPasses /\ analyzeSelection(f, lo, hi)
    \/ \E p \in BagToSet(passes), items \in Responses : SelectionReturns(p, items)
    \/ \E p \in BagToSet(passes) : LlmFails(p)
    \/ \E r \in 1..Len(objs) : applySuggestion(r)
    \/ \E f \in MainFiles, line \in 0..(MaxLines - 1) : applySuggestionAtCursor(f, line)
    \/ \E r \in 1..Len(objs) : ignoreSuggestion(r)
    \/ \E f \in MainFiles, line \in 0..(MaxLines - 1) : ignoreSuggestionAtCursor(f, line)
    \/ clearAllSuggestions

Spec == Init /\ [][Next]_vars

(***************************************************************************)
(* SpecEdit: the live-edit tracker alone.  The store already holds         *)
(* suggestions, each still on the line it was created for (the line is     *)
(* part of the id), and the user edits documents of up to EditLines lines. *)
(***************************************************************************)
EditLines == 3
EditBudget == 1

Flags == {"active", "applied", "ignored"}

\* a suggestion merged earlier: created for `line`, not yet moved
Stored(f, line, msg, flag) ==
    [id |-> <<f, line, msg>>, uri |-> f, line |-> line, msg |-> msg, anchor |-> <<>>,
     applied |-> (flag = "applied"), ignored |-> (flag = "ignored")]

BlankText(n) == [i \in 1..n |-> LineA]

InitEdit ==
    /\ \E n \in 1..EditLines : doc = [f \in Files |-> IF f = "f" THEN BlankText(n) ELSE WorkText]
    /\ disk = [f \in Files |-> WorkText]
    /\ \E l1 \in 0..(Len(doc["f"]) - 1), l2 \in 0..(Len(doc["f"]) - 1), l3 \in 0..1,
          fl1 \in Flags, fl2 \in Flags :
          objs = <<Stored("f", l1, "why", fl1), Stored("f", l2, "how", fl2),
                   Stored("g", l3, "why", "active")>>
    /\ store = [f \in Files |-> IF f = "f" THEN <<1, 2>> ELSE <<3>>]
    /\ cache = {}
    /\ prevText = [f \in Files |-> <<>>]
    /\ timers = [f \in Files |-> NoTimer]
    /\ passes = EmptyBag
    /\ npass = 0
    /\ nedit = 0
    /\ apiKey = SomeKey
    /\ rq = NoRq

\* the texts typed in SpecEdit
EditNew == {BlankText(n) : n \in 1..EditLines}

NextEdit ==
    \E f \in Files, start \in 0..(EditLines - 1), end \in 0..(EditLines - 1), new \in EditNew :
        /\ nedit < EditBudget
        /\ start <= end /\ end < Len(doc[f])
        /\ Len(Replaced(doc[f], start, end, new)) <= EditLines
        /\ Edit(f, start, end, new)

SpecEdit == InitEdit /\ [][NextEdit]_vars

\* every change event the models deliver
AnyEdit(P(_, _, _, _)) ==
    nedit' # nedit =>
        \A f \in Files, start \in 0..(EditLines - 1) :
            \A end \in start..(EditLines - 1), new \in EditNew \cup NewLines :
                Edit(f, start, end, new) => P(f, start, end, Len(new) - 1)

\* C1: for every change (start, end, k) with delta = k - (end - start), every
\* active suggestion of the edited file with line > end ends with
\* line + delta, and every suggestion of it with line < start keeps its line.
C1_Post(f, start, end, k) ==
    \A r \in Refs(store[f]) :
        /\ (IsActive(objs[r]) /\ objs[r].line > end)
              => objs'[r].line = objs[r].line + (k - (end - start))
        /\ objs[r].line < start => objs'[r].line = objs[r].line

C1_ShiftBelowRange == [][AnyEdit(C1_Post)]_vars

\* C1 witness: after one edit the suggestions created for lines 0 and 1 are on
\* lines 1 and 2: the one from line 1 lay below the change and moved by +1
\* (had it been inside the range, both would be on the same line).
C1_Witness ==
    /\ nedit = 1
    /\ Len(objs) = 3
    /\ IsActive(objs[1]) /\ objs[1].id[2] = 0 /\ objs[1].line = 1
    /\ IsActive(objs[2]) /\ objs[2].id[2] = 1 /\ objs[2].line = 2

\* C2 as stated: for every change, whatever its delta, every active
\* suggestion of the edited file with start <= line <= end ends on
\* max(0, start + k).
C2_PostAnyDelta(f, start, end, k) ==
    \A r \in Refs(store[f]) :
        (IsActive(objs[r]) /\ objs[r].line >= start /\ objs[r].line <= end)
            => objs'[r].line = (IF start + k > 0 THEN start + k ELSE 0)

C2_SnapWhateverDelta == [][AnyEdit(C2_PostAnyDelta)]_vars

\* C2 amended: a change with delta # 0 snaps every active suggestion of the
\* edited file with start <= line <= end to max(0, start + k); a change with
\* delta = 0 (k = end - start) leaves every suggestion on its line.
C2_Post(f, start, end, k) ==
    \A r \in Refs(store[f]) :
        /\ (k # end - start /\ IsActive(objs[r]) /\ objs[r].line >= start /\ objs[r].line <= end)
              => objs'[r].line = (IF start + k > 0 THEN start + k ELSE 0)
        /\ k = end - start => objs'[r].line = objs[r].line

C2_SnapUnlessSameCount == [][AnyEdit(C2_Post)]_vars

\* C2 witness: after one edit the active suggestion created for line 0 is on
\* line 2; no line lies above line 0, so it was inside the changed range.
C2_Witness ==
    /\ nedit = 1
    /\ Len(objs) = 3
    /\ IsActive(objs[1]) /\ objs[1].id[2] = 0 /\ objs[1].line = 2


(***************************************************************************)
(* SpecResolve: resolveSuggestionLocations alone, on documents of up to    *)
(* ResolveLines lines and arrays of up to ResolveItems suggestions (the    *)
(* loop treats every suggestion on its own).                               *)
(***************************************************************************)
ResolveLines == 3
ResolveItems == 1

\* document lines: an indented "x", a "+x", a "y"
LineIX == <<" ", "x">>
LinePX == <<"+", "x">>
LineY == <<"y">>
ResolveDocs == UNION {[1..n -> {LineIX, LinePX, LineY}] : n \in 1..ResolveLines}

\* anchors: none, blank, "x", "+x", "+" and one that no line contains
ResolveAnchors == {<<>>, <<" ">>, <<"x">>, LinePX, <<"+">>, <<"z">>}

\* the analyzer's line numbers are not trusted: below 0 and past the end too
ResolveItem == [line : (-1)..ResolveLines, anchor : ResolveAnchors]

InitResolve ==
    /\ doc = [f \in Files |-> WorkText]
    /\ disk = [f \in Files |-> WorkText]
    /\ objs = <<>>
    /\ store = [f \in Files |-> <<>>]
    /\ cache = {}
    /\ prevText = [f \in Files |-> <<>>]
    /\ timers = [f \in Files |-> NoTimer]
    /\ passes = EmptyBag
    /\ npass = 0
    /\ nedit = 0
    /\ apiKey = SomeKey
    /\ \E lines \in ResolveDocs, opens \in BOOLEAN, n \in 0..ResolveItems :
          \E items \in [1..n -> ResolveItem] :
             rq = [lines |-> lines, opens |-> opens, items |-> items, out |-> <<>>, done |-> FALSE]

Resolve ==
    /\ ~rq.done
    /\ rq' = [rq EXCEPT !.out = resolveSuggestionLocations(rq.lines, rq.opens, rq.items),
                        !.done = TRUE]
    /\ UNCHANGED <<doc, disk, objs, store, cache, prevText, timers, passes, npass, nedit, apiKey>>

NextResolve == Resolve

SpecResolve == InitResolve /\ [][NextResolve]_vars

\* line j (0-based) of the resolved document, trimmed, is the anchor
AnchorIsLine(anchor, j) == j < Len(rq.lines) /\ anchor = Trim(rq.lines[j + 1])

\* line j contains the stripped anchor (the lines the code collects)
IsCandidate(anchor, j) ==
    LET stripped == IF anchor # <<>> /\ Head(anchor) \in {"+", "-", " ", "\t"}
                    THEN Tail(anchor) ELSE anchor
    IN  j < Len(rq.lines) /\ Includes(rq.lines[j + 1], Trim(stripped))

Indices == 0..(ResolveLines - 1)

\* C4 as stated: a suggestion whose anchor equals the trimmed content of
\* document line j is put on line j, whatever its stored line and whatever
\* the document.
C4_AnchorFindsLine ==
    (rq.done /\ rq.opens) =>
        \A i \in 1..Len(rq.items), j \in Indices :
            AnchorIsLine(rq.items[i].anchor, j) => rq.out[i].line = j

\* C4 amended: a suggestion whose anchor equals the trimmed content of
\* document line j is put on line j when no other line contains the stripped
\* anchor; in every case it is put on a line that contains the stripped anchor.
C4_AnchorFindsOnlyLine ==
    (rq.done /\ rq.opens) =>
        \A i \in 1..Len(rq.items), j \in Indices :
            AnchorIsLine(rq.items[i].anchor, j) =>
                /\ IsCandidate(rq.items[i].anchor, rq.out[i].line)
                /\ (\A k \in Indices \ {j} : ~IsCandidate(rq.items[i].anchor, k))
                      => rq.out[i].line = j

\* C4 witness: the anchor "x" is the trimmed content of line 2 only, the
\* stored line was -1, and the suggestion is now on line 2.
C4_Witness ==
    /\ rq.done /\ rq.opens
    /\ rq.lines = <<LineY, LineY, LineIX>>
    /\ Len(rq.items) >= 1
    /\ rq.items[1] = [line |-> -1, anchor |-> <<"x">>]
    /\ rq.out[1].line = 2

\* C5: when several lines match the (stripped) anchor, the suggestion is put
\* on the matching line nearest to its last-known line, and among equally
\* near ones on the lowest.
C5_NearestLowest ==
    (rq.done /\ rq.opens) =>
        \A i \in 1..Len(rq.items) :
            LET a == rq.items[i].anchor
                was == rq.items[i].line
                now == rq.out[i].line
                dist(c) == IF c >= was THEN c - was ELSE was - c
                cands == {c \in Indices : IsCandidate(a, c)}
            IN  (Trim(a) # <<>> /\ Cardinality(cands) >= 2) =>
                    /\ now \in cands
                    /\ \A c \in cands : dist(now) <= dist(c)
                    /\ \A c \in cands : dist(c) = dist(now) => now <= c

\* C5 witness: "x" is found on lines 0 and 2, the stored line 1 is equally far
\* from both, and the suggestion is now on line 0.
C5_Witness ==
    /\ rq.done /\ rq.opens
    /\ rq.lines = <<LineIX, LineY, LinePX>>
    /\ Len(rq.items) >= 1
    /\ rq.items[1] = [line |-> 1, anchor |-> <<"x">>]
    /\ rq.out[1].line = 0

SharedEdits == 3
SharedPasses == 5

\* the working copy of both files: the last line of HEAD deleted
ShortText == <<LineA>>

InitShared ==
    /\ doc = [f \in Files |-> ShortText]
    /\ disk = [f \in Files |-> ShortText]
    /\ objs = <<>>
    /\ store = [f \in Files |-> <<>>]
    /\ cache = {}
    /\ prevText = [f \in Files |-> <<>>]
    /\ timers = [f \in Files |-> NoTimer]
    /\ passes = EmptyBag
    /\ npass = 0
    /\ nedit = 0
    /\ apiKey = SomeKey
    /\ rq = NoRq

\* in SpecShared the analyzer finds nothing or points at the last line, and
\* the user types "a" or "a", line break, "a" over the replaced lines
SharedResponses == {items \in Responses :
                       \A i \in 1..Len(items) : items[i] = [line |-> MaxLines - 1, anchor |-> <<>>]}
SharedNew == {<<LineA>>, <<LineA, LineA>>}

NextShared ==
    \/ \E f \in Files, start \in 0..(MaxLines - 1), end \in 0..(MaxLines - 1), new \in SharedNew :
          /\ nedit < SharedEdits
          /\ start <= end /\ end < Len(doc[f])
          /\ Len(Replaced(doc[f], start, end, new)) <= MaxLines
          /\ Edit(f, start, end, new)
    \/ \E f \in Files : scheduleAnalyze(f)
    \/ \E f \in Files : npass < SharedPasses /\ TimerFires(f)
    \/ \E p \in BagToSet(passes) : GitReturns(p)
    \/ \E p \in BagToSet(passes), items \in SharedResponses : LlmReturns(p, items)

SpecShared == InitShared /\ [][NextShared]_vars


(***************************************************************************)
(* SpecAnnotate: annotateDiffWithNewLines alone, on the diff of one file   *)
(* with one or two hunks.  Every hunk header carries both counts and the   *)
(* lines of a hunk are context, removed and added lines; the diff is bare  *)
(* (as analyzeSelection builds it) or has the file header and the final    *)
(* line break of createTwoFilesPatch.  rq.lines is the diff, rq.out the    *)
(* entries <<number, text>>.                                               *)
(***************************************************************************)
AnnotateBody == 4
AnnotateTail == 2

LineX == <<"x">>
LineYY == <<"y", "y">>

\* the lines of a hunk: context, removed, added
BodyLines == {DiffLine(" ", LineX), DiffLine("-", LineX), DiffLine("+", LineX), DiffLine("+", LineYY)}
Bodies(n) == UNION {[1..k -> BodyLines] : k \in 0..n}

\* how many lines of body have their first character in kinds
CountKinds(body, kinds) == Cardinality({i \in 1..Len(body) : body[i].t \in kinds})

\* a hunk that starts at line ns of the new file and os of the old one
HunkOf(os, ns, body) ==
    <<HunkHeader(os, CountKinds(body, {" ", "-"}), ns, CountKinds(body, {" ", "+"}))>> \o body

\* one hunk, or two with one unchanged line between them
AnnotateHunks ==
    {HunkOf(ns, ns, b) : ns \in 1..2, b \in Bodies(AnnotateBody)}
    \cup {HunkOf(ns, ns, b) \o HunkOf(ns + CountKinds(b, {" ", "-"}) + 1,
                                      ns + CountKinds(b, {" ", "+"}) + 1, c) :
             ns \in 1..2, b \in Bodies(AnnotateBody) \ {<<>>}, c \in Bodies(AnnotateTail) \ {<<>>}}

AnnotateDiffs ==
    AnnotateHunks
    \cup {<<DiffLine("=", <<"=">>), DiffLine("-", <<"-", "-", " ", "prev">>),
            DiffLine("+", <<"+", "+", " ", "cur">>)>> \o h \o <<DiffLine("", <<>>)>> : h \in AnnotateHunks}

InitAnnotate ==
    /\ doc = [f \in Files |-> WorkText]
    /\ disk = [f \in Files |-> WorkText]
    /\ objs = <<>>
    /\ store = [f \in Files |-> <<>>]
    /\ cache = {}
    /\ prevText = [f \in Files |-> <<>>]
    /\ timers = [f \in Files |-> NoTimer]
    /\ passes = EmptyBag
    /\ npass = 0
    /\ nedit = 0
    /\ apiKey = SomeKey
    /\ \E d \in AnnotateDiffs :
          rq = [lines |-> d, opens |-> TRUE, items |-> <<>>, out |-> <<>>, done |-> FALSE]

Annotate ==
    /\ ~rq.done
    /\ rq' = [rq EXCEPT !.out = annotateDiffWithNewLines(rq.lines), !.done = TRUE]
    /\ UNCHANGED <<doc, disk, objs, store, cache, prevText, timers, passes, npass, nedit, apiKey>>

NextAnnotate == Annotate

SpecAnnotate == InitAnnotate /\ [][NextAnnotate]_vars

\* the header of the hunk that line i of the diff belongs to (0: none)
HeaderOf(diff, i) ==
    LET hs == {j \in 1..(i - 1) : diff[j].t = "@"}
    IN  IF hs = {} THEN 0 ELSE CHOOSE j \in hs : \A k \in hs : k <= j

\* the added lines of the diff: the '+' lines inside a hunk
AddedAt(diff) == {i \in 1..Len(diff) : diff[i].t = "+" /\ HeaderOf(diff, i) # 0}

\* the new-file line number (1-based) of line i of the diff: newStart of its
\* hunk plus the context and added lines of the hunk before it
NewFileLine(diff, i) ==
    LET h == HeaderOf(diff, i)
    IN  diff[h].n[3] + Cardinality({j \in (h + 1)..(i - 1) : diff[j].t \in {" ", "+"}})

\* C20: the entries are those of the added lines of the diff, one each and in
\* their order, with the text of the line and its new-file line number; a
\* context or removed line has no entry.
C20_NumbersAddedLines ==
    rq.done =>
        LET at == SortedSeq(AddedAt(rq.lines))
        IN  /\ Len(rq.out) = Len(at)
            /\ \A n \in 1..Len(at) :
                  rq.out[n] = <<NewFileLine(rq.lines, at[n]), rq.lines[at[n]].s>>

\* C20 witness: the hunk @@ -1,2 +1,4 @@ with two context lines and then two
\* added lines gave exactly the entries numbered 3 and 4.
C20_Witness ==
    /\ rq.done
    /\ rq.lines = <<HunkHeader(1, 2, 1, 4), DiffLine(" ", LineX), DiffLine(" ", LineX),
                    DiffLine("+", LineX), DiffLine("+", LineYY)>>
    /\ rq.out = <<<<3, LineX>>, <<4, LineYY>>>>

(***************************************************************************)
(* The claims about the store, the passes and the baseline.                *)
(***************************************************************************)
\* C3: onDocChanged changes nothing but the line of active suggestions of the
\* edited file: applied and ignored suggestions keep their line, every
\* suggestion keeps its other fields, every slot keeps its records, and the
\* records stored for other files are unchanged.
C3_Post(f, start, end, k) ==
    /\ store' = store
    /\ Len(objs') = Len(objs)
    /\ \A r \in 1..Len(objs) :
          /\ objs'[r] = [objs[r] EXCEPT !.line = objs'[r].line]
          /\ ~IsActive(objs[r]) => objs'[r].line = objs[r].line
    /\ \A g \in Files \ {f} : \A r \in Refs(store[g]) : objs'[r] = objs[r]

C3_OnlyLinesOfEditedFile == [][AnyEdit(C3_Post)]_vars

\* C7: no slot of the store ever holds two records with the same id.
C7_OneRecordPerId ==
    \A f \in Files : \A i \in 1..Len(store[f]), j \in 1..Len(store[f]) :
        i # j => objs[store[f][i]].id # objs[store[f][j]].id

\* C7 witness: the analyzer produced the same id twice; the older object was
\* applied while stored, and the slot now holds the newer one, once.
C7_Witness ==
    \E f \in Files, r \in 1..Len(objs), q \in 1..Len(objs) :
        /\ q < r /\ objs[q].id = objs[r].id
        /\ objs[q].applied
        /\ r \in Refs(store[f]) /\ q \notin Refs(store[f])
        /\ Len(store[f]) = 1

\* the records that a step puts into the slot of f
AddedToSlot(f) == Refs(store'[f]) \ Refs(store[f])

\* the lines of these records are added lines of diff
OnAddedLines(f, diff) ==
    \A r \in AddedToSlot(f) : objs'[r].line \in addedLinesFromUnifiedDiff(diff)

\* C8: every suggestion that a pass of analyzeUri adds to the store is on an
\* added line (0-based, new file) of the diff the pass obtained, on the
\* fresh path and on the cache path.
C8_StoredOnAddedLines ==
    [][/\ \A f \in Files :
             (TimerFires(f) /\ prevText[f] # <<>>) => OnAddedLines(f, SnapshotDiff(f))
       /\ \A p \in BagToSet(passes) :
             /\ GitReturns(p) => OnAddedLines(p.file, GitDiffText(p.file, disk[p.file]))
             /\ \A items \in Responses : LlmReturns(p, items) => OnAddedLines(p.file, p.diff)]_vars

\* C9: the suggestions a pass stores when the analyzer answers carry lines
\* resolved against the document as it is at that moment.
C9_ResolvedAtMerge ==
    [][\A p \in BagToSet(passes), items \in Responses :
          LlmReturns(p, items) =>
              \A r \in AddedToSlot(p.file) :
                  \E i \in 1..Len(items) :
                      /\ objs'[r].id = <<p.file, items[i].line, "why">>
                      /\ objs'[r].anchor = items[i].anchor
                      /\ objs'[r].line = ResolveLine(doc[p.file], items[i].line, items[i].anchor)]_vars

\* C9 witness: the pass was dispatched on the text a,b (now the snapshot),
\* where the anchor "a" is on line 0, which is no added line; the stored
\* suggestion with that anchor is on line 1, where "a" is in the live text.
C9_Witness ==
    \E r \in Refs(store["f"]) :
        /\ prevText["f"] = <<WorkText>>
        /\ doc["f"] = <<LineB, LineA>>
        /\ objs[r].anchor = LineA /\ objs[r].line = 1 /\ IsActive(objs[r])


\* the step hands diff to the analysis of f: a blank diff clears the slot,
\* any other diff becomes a key of the cache or is carried to the analyzer
Handed(f, diff) ==
    IF IsBlankDiff(diff) THEN store'[f] = <<>>
    ELSE \/ \E e \in cache' : e[1] = diff
         \/ \E q \in BagToSet(passes') : q.file = f /\ q.stage = "llm" /\ q.diff = diff

\* the step completes a pass of f (it does not leave it waiting, and its diff
\* is not blank)
Completes(f, diff, rest) == ~IsBlankDiff(diff) /\ passes' = rest

\* C10, the choice of the diff: with a snapshot, the diff from the snapshot to
\* the current text, and git is not asked; without one, the diff that
\* getDiffForFile returns.
C10_Choice ==
    /\ \A f \in Files :
          TimerFires(f) =>
              IF prevText[f] # <<>>
              THEN /\ Handed(f, TwoFilesPatch(prevText[f][1], doc[f]))
                   /\ \A q \in BagToSet(passes') : q.stage = "git" => BagIn(q, passes)
              ELSE /\ BagIn(Pass("uri", f, doc[f], "git", <<>>, 0, 0), passes')
                   /\ UNCHANGED <<store, cache, prevText>>
    /\ \A p \in BagToSet(passes) :
          GitReturns(p) => Handed(p.file, GitDiffText(p.file, disk[p.file]))

C11_FailedPassKeepsBaseline ==
    [][\A p \in BagToSet(passes) :
          (p.kind = "uri" /\ LlmFails(p)) => prevText'[p.file] = prevText[p.file]]_vars

\* C12: two passes of one file are in flight, the first dispatched on the
\* text T1 the file had before the user's edit, the second on the text T2 it
\* has since; the snapshot only moves forward, so when the analyzer call of
\* the second has returned (its diff is in the cache, the snapshot is T2) and
\* the analyzer call of the first returns last, the snapshot is still T2 once
\* no pass of the file is left.
C12_BaselineMovesForward ==
    [][\A p \in BagToSet(passes), items \in Responses :
          (/\ LlmReturns(p, items)
           /\ nedit = 1 /\ p.text = WorkText /\ doc[p.file] # WorkText
           /\ prevText[p.file] = <<doc[p.file]>>
           /\ \E e \in cache : e[1] # p.diff /\ annotateDiffWithNewLines(e[1]) # <<>>
           /\ \A q \in BagToSet(passes') : q.file # p.file)
              => prevText'[p.file] = <<doc[p.file]>>]_vars

\* C13: when the analyzer call of a pass (analyzeUri or analyzeSelection)
\* fails, the call ends like any other (nothing is thrown to the host), no
\* suggestion object is created, and every slot of the store holds the same
\* records in the same order, with the same ids, lines and flags.
C13_FailureLeavesStore ==
    [][\A p \in BagToSet(passes) :
          LlmFails(p) => /\ passes' = Resume(passes, p)
                         /\ objs' = objs
                         /\ store' = store]_vars

\* C13 witness: the first pass of f stored a suggestion; after an edit a
\* second pass sent the diff from the snapshot to the analyzer and got
\* nothing from it (the cache holds no suggestion for that diff); the
\* suggestion of the first pass is still what the slot holds.
C13_Witness ==
    /\ HasKey /\ nedit = 1 /\ passes = EmptyBag
    /\ doc["f"] # WorkText /\ prevText["f"] = <<doc["f"]>>
    /\ \E e1 \in cache, e2 \in cache :
          /\ e1[2] # <<>> /\ store["f"] = e1[2]
          /\ e2[1] = TwoFilesPatch(WorkText, doc["f"])
          /\ annotateDiffWithNewLines(e2[1]) # <<>>
          /\ e2[2] = <<>>

\* C14: when getDiffForFile fails, the pass ends there: no call to the
\* analyzer is started (the suspended calls are the ones there were, less
\* this one), and the suggestions of every file, the objects, the snapshots
\* and the cache are unchanged; in particular the slot of the file is not
\* cleared as it is for a blank diff.
C14_DiffFailureAborts ==
    [][\A p \in BagToSet(passes) :
          GitFails(p) => /\ passes' = Resume(passes, p)
                         /\ UNCHANGED <<objs, store, prevText, cache>>]_vars

\* C14 witness: without an API key only saves start passes; one pass of f
\* has started and ended, the saved text differs from HEAD, and yet f has no
\* snapshot and the cache is empty: the diff could not be obtained.
C14_Witness ==
    /\ ~HasKey /\ npass = 1 /\ passes = EmptyBag
    /\ disk["f"] = WorkText /\ doc["f"] = WorkText /\ nedit = 0
    /\ ~IsBlankDiff(GitDiffText("f", disk["f"]))
    /\ prevText["f"] = <<>> /\ cache = {}

\* a diff text that is empty or holds nothing but white space
C15_Blank(diff) ==
    \A i \in 1..Len(diff) : diff[i].t \in {"", " ", "\t"} /\ Trim(diff[i].s) = <<>>

\* what a pass of f that obtained a blank diff leaves: no active suggestion
\* of f, no call to the analyzer (rest: the suspended calls without this
\* one), the objects, snapshots, cache and the slots of other files as they were
C15_Post(f, rest) ==
    /\ \A r \in Refs(store'[f]) : ~IsActive(objs'[r])
    /\ passes' = rest
    /\ UNCHANGED <<objs, prevText, cache>>
    /\ \A g \in Files \ {f} : store'[g] = store[g]

\* C15: a pass whose diff is empty or whitespace-only clears the active
\* suggestions of its file and stops: no analyzer call, and the snapshot, the
\* cache and the suggestions of every other file are unchanged.
C15_BlankDiffClears ==
    [][/\ \A f \in Files :
             (TimerFires(f) /\ prevText[f] # <<>> /\ C15_Blank(SnapshotDiff(f)))
                 => C15_Post(f, passes)
       /\ \A p \in BagToSet(passes) :
             (GitReturns(p) /\ C15_Blank(GitDiffText(p.file, disk[p.file])))
                 => C15_Post(p.file, Resume(passes, p))]_vars

\* C15 witness: an active suggestion was created for f, and the slot of f is
\* empty (here nothing but a blank-diff pass empties a slot), while g still
\* has its suggestions and the cache its entries.
C15_Witness ==
    /\ \E r \in 1..Len(objs) : objs[r].uri = "f" /\ IsActive(objs[r])
    /\ store["f"] = <<>>
    /\ store["g"] # <<>>
    /\ cache # {}

\* C16: a record that is applied or ignored stays in the slot of its file
\* (itself, or a record with its id) across every step that is not the
\* clear-all action: every analysis pass and every live edit.
C16_FlaggedRecordsPersist ==
    [][~clearAllSuggestions =>
          \A f \in Files : \A r \in Refs(store[f]) :
              ~IsActive(objs[r]) => \E q \in Refs(store'[f]) : objs'[q].id = objs[r].id]_vars

\* what a step on file f leaves alone: the slot of every other file g, the
\* records in it, and the snapshot of g
C17_Frame(f) ==
    \A g \in Files \ {f} :
        /\ store'[g] = store[g]
        /\ prevText'[g] = prevText[g]
        /\ \A r \in Refs(store[g]) : objs'[r] = objs[r]

C17_EditFrame(f, start, end, k) == C17_Frame(f)

\* C17: a live edit of f and every step of an analysis pass of f (its start
\* when the timer fires, the return of getDiffForFile, the return of the
\* analyzer) leave the suggestions stored for every other file and its
\* snapshot unchanged, whatever passes are in flight.
C17_OtherFilesUntouched ==
    [][/\ AnyEdit(C17_EditFrame)
       /\ \A f \in Files : TimerFires(f) => C17_Frame(f)
       /\ \A p \in BagToSet(passes) :
             /\ GitReturns(p) => C17_Frame(p.file)
             /\ \A items \in Responses : LlmReturns(p, items) => C17_Frame(p.file)]_vars

C19_OnFreeLines(f) ==
    \A r \in AddedToSlot(f) : \A q \in Refs(store[f]) :
        IsActive(objs[q]) => objs'[r].line # objs[q].line

\* the same, for the active suggestions that are still in the slot after the
\* step (a record that the step replaces by one with its id does not count)
C19_NotBeside(f) ==
    \A r \in AddedToSlot(f) : \A q \in Refs(store[f]) \cap Refs(store'[f]) :
        IsActive(objs[q]) => objs'[r].line # objs[q].line

\* the steps in which analyzeUri merges
C19_UriMerges ==
    /\ \A f \in Files : TimerFires(f) => C19_OnFreeLines(f)
    /\ \A p \in BagToSet(passes) :
          /\ GitReturns(p) => C19_OnFreeLines(p.file)
          /\ \A items \in Responses : LlmReturns(p, items) => C19_OnFreeLines(p.file)

RECURSIVE ParseWalk(_, _, _, _)
ParseWalk(diff, i, hunks, current) ==
    IF i > Len(diff) THEN hunks \o current
    ELSE LET l == diff[i]
         IN  IF HeaderMatches(l)
             THEN ParseWalk(diff, i + 1, hunks \o current,
                            <<[newStart |-> l.n[3], newLines |-> l.n[4], lines |-> <<>>]>>)
             ELSE IF current = <<>> THEN ParseWalk(diff, i + 1, hunks, current)
             ELSE IF l.t \in {"+", "-", " "}
                  THEN ParseWalk(diff, i + 1, hunks, <<[current[1] EXCEPT !.lines = Append(@, l)]>>)
             ELSE ParseWalk(diff, i + 1, hunks, current)

parseUnifiedDiff(diff) == ParseWalk(diff, 1, <<>>, <<>>)

\* /@@ -\d+,?\d* \+(\d+),?\d* @@/ : the counts may be left out
HeaderMatchesAnyCounts(l) == l.t = "@" /\ l.n # <<>>

\* line.startsWith('+++') || line.startsWith('---'); a 'diff --git' or 'index'
\* line starts with none of '+', '-', ' ' and is skipped by the walk either way
IsFileHeaderLine(l) == l.t \in {"+", "-"} /\ StartsWith(l.s, <<l.t, l.t>>)

\* parseDiffOutput: the changes from line i on; a line with t = "@" is a line
\* that starts with '@@'
RECURSIVE ChangesWalk(_, _, _, _)
ChangesWalk(diff, i, inHunk, currentLineNumber) ==
    IF i > Len(diff) THEN <<>>
    ELSE LET l == diff[i]
         IN  IF l.t = "@"
             THEN IF HeaderMatchesAnyCounts(l) THEN ChangesWalk(diff, i + 1, TRUE, l.n[3])
                  ELSE ChangesWalk(diff, i + 1, inHunk, currentLineNumber)
             ELSE IF ~inHunk THEN ChangesWalk(diff, i + 1, inHunk, currentLineNumber)
             ELSE IF IsFileHeaderLine(l) THEN ChangesWalk(diff, i + 1, inHunk, currentLineNumber)
             ELSE IF l.t = "+"
                  THEN <<[lineNumber |-> currentLineNumber, content |-> l.s, type |-> "added"]>>
                       \o ChangesWalk(diff, i + 1, inHunk, currentLineNumber + 1)
             ELSE IF l.t = "-"
                  THEN <<[lineNumber |-> currentLineNumber, content |-> l.s, type |-> "deleted"]>>
                       \o ChangesWalk(diff, i + 1, inHunk, currentLineNumber)
             ELSE IF l.t = " " THEN ChangesWalk(diff, i + 1, inHunk, currentLineNumber + 1)
             ELSE ChangesWalk(diff, i + 1, inHunk, currentLineNumber)

parseDiffOutput(diff) == ChangesWalk(diff, 1, FALSE, 0)

(***************************************************************************)
(* SpecParse: the parsers alone, on every diff text of up to ParseLen      *)
(* lines: hunk headers in the four forms git writes, context, added and    *)
(* removed lines, the '\ No newline at end of file' line, a line that      *)
(* starts with '@@' and is no header, and the empty line.  rq.lines is the *)
(* diff, rq.out the parser that ran and its result.                        *)
(***************************************************************************)
ParseLen == 4

ParseHeaders == {HunkHeader(1, oc, ns, nc) : oc \in {-1, 1}, ns \in {1, 3}, nc \in {-1, 2}}
NoNewlineLine == DiffLine("\\", <<"n">>)
AtJunkLine == DiffLine("@", <<"@">>)
ParseLines ==
    ParseHeaders \cup {DiffLine(" ", LineX), DiffLine("+", LineX), DiffLine("-", LineX),
                       NoNewlineLine, AtJunkLine, DiffLine("", <<>>)}
ParseDiffs == UNION {[1..n -> ParseLines] : n \in 1..ParseLen}

InitParse ==
    /\ doc = [f \in Files |-> WorkText]
    /\ disk = [f \in Files |-> WorkText]
    /\ objs = <<>>
    /\ store = [f \in Files |-> <<>>]
    /\ cache = {}
    /\ prevText = [f \in Files |-> <<>>]
    /\ timers = [f \in Files |-> NoTimer]
    /\ passes = EmptyBag
    /\ npass = 0
    /\ nedit = 0
    /\ apiKey = SomeKey
    /\ \E d \in ParseDiffs :
          rq = [lines |-> d, opens |-> TRUE, items |-> <<>>, out |-> <<>>, done |-> FALSE]

ParserRuns(parser, result) ==
    /\ ~rq.done
    /\ rq' = [rq EXCEPT !.out = [parser |-> parser, result |-> result], !.done = TRUE]
    /\ UNCHANGED <<doc, disk, objs, store, cache, prevText, timers, passes, npass, nedit, apiKey>>

NextParse ==
    \/ ParserRuns("parseUnifiedDiff", parseUnifiedDiff(rq.lines))
    \/ ParserRuns("addedLinesFromUnifiedDiff", addedLinesFromUnifiedDiff(rq.lines))
    \/ ParserRuns("parseDiffOutput", parseDiffOutput(rq.lines))

SpecParse == InitParse /\ [][NextParse]_vars

\* the lines of the diff that are hunk headers, in any of the four forms
WrittenHeaders(diff) == {i \in 1..Len(diff) : diff[i].t = "@" /\ diff[i].n # <<>>}
CountOr1(c) == IF c = -1 THEN 1 ELSE c

\* C21: a header opens a hunk with newStart = c whether or not its counts are
\* written: parseUnifiedDiff returns one hunk per header, in order, with the
\* header's newStart and its new count (1 when left out); an added line right
\* after a header is line c of the new file for addedLinesFromUnifiedDiff
\* (c - 1, 0-based) and for parseDiffOutput.
C21_HeaderWithOrWithoutCounts ==
    rq.done =>
        LET d == rq.lines
            hs == SortedSeq(WrittenHeaders(d))
            firstAdded == {i \in WrittenHeaders(d) : i < Len(d) /\ d[i + 1].t = "+"}
            res == rq.out.result
        IN  /\ rq.out.parser = "parseUnifiedDiff" =>
                  /\ Len(res) = Len(hs)
                  /\ \A k \in 1..Len(hs) :
                        /\ res[k].newStart = d[hs[k]].n[3]
                        /\ res[k].newLines = CountOr1(d[hs[k]].n[4])
            /\ rq.out.parser = "addedLinesFromUnifiedDiff" =>
                  \A i \in firstAdded : (d[i].n[3] - 1) \in res
            /\ rq.out.parser = "parseDiffOutput" =>
                  \A i \in firstAdded :
                      \E k \in 1..Len(res) :
                          res[k] = [lineNumber |-> d[i].n[3], content |-> d[i + 1].s, type |-> "added"]

\* the headers the parsers of llm.ts and extension.ts take as such
Opened(diff) == {i \in 1..Len(diff) : HeaderMatches(diff[i])}

\* line j is captured by the hunk opened at h: it starts with ' ', '+' or '-'
\* and so does every line between h and it (an empty line, which has no first
\* character, aside)
CapturedBy(diff, h, j) ==
    /\ h < j
    /\ diff[j].t \in {" ", "+", "-"}
    /\ \A k \in (h + 1)..(j - 1) : diff[k].t \in {" ", "+", "-", ""}

\* C22: a line of a hunk that starts with none of ' ', '+', '-' ends the
\* capture: the lines of a hunk of parseUnifiedDiff are the lines captured by
\* its header, and addedLinesFromUnifiedDiff holds the numbers of the captured
\* '+' lines only.  (Stated for the diffs whose headers all carry both
\* counts, so that which headers open a hunk is not in question.)
C22_OtherLineEndsCapture ==
    (rq.done /\ WrittenHeaders(rq.lines) = Opened(rq.lines)) =>
        LET d == rq.lines
            hs == SortedSeq(Opened(d))
            res == rq.out.result
        IN  /\ rq.out.parser = "parseUnifiedDiff" =>
                  /\ Len(res) = Len(hs)
                  /\ \A k \in 1..Len(hs) :
                        Len(res[k].lines) = Cardinality({j \in 1..Len(d) : CapturedBy(d, hs[k], j)})
            /\ rq.out.parser = "addedLinesFromUnifiedDiff" =>
                  res = {d[h].n[3] + Cardinality({k \in (h + 1)..(j - 1) : d[k].t \in {" ", "+"}}) - 1 :
                           <<h, j>> \in {x \in Opened(d) \X (1..Len(d)) :
                                            CapturedBy(d, x[1], x[2]) /\ d[x[2]].t = "+"}}

(***************************************************************************)
(* SpecFilter: filterAlreadyExplained alone, on every document of up to    *)
(* FilterLines lines (blank, code, code with a comment behind it) and up   *)
(* to FilterItems suggestions, whose lines may lie outside the document.   *)
(***************************************************************************)
FilterLines == 5
FilterItems == 2

LineBlank == <<" ">>
LineXC == <<"x", "#">>
FilterDocs == UNION {[1..n -> {LineBlank, LineX, LineXC}] : n \in 1..FilterLines}
FilterItem == [line : (-1)..FilterLines, anchor : {<<>>}]

InitFilter ==
    /\ doc = [f \in Files |-> WorkText]
    /\ disk = [f \in Files |-> WorkText]
    /\ objs = <<>>
    /\ store = [f \in Files |-> <<>>]
    /\ cache = {}
    /\ prevText = [f \in Files |-> <<>>]
    /\ timers = [f \in Files |-> NoTimer]
    /\ passes = EmptyBag
    /\ npass = 0
    /\ nedit = 0
    /\ apiKey = SomeKey
    /\ \E lines \in FilterDocs, opens \in BOOLEAN, n \in 0..FilterItems :
          \E items \in [1..n -> FilterItem] :
             rq = [lines |-> lines, opens |-> opens, items |-> items, out |-> <<>>, done |-> FALSE]

Filter ==
    /\ ~rq.done
    /\ rq' = [rq EXCEPT !.out = filterAlreadyExplained(rq.lines, rq.opens, rq.items), !.done = TRUE]
    /\ UNCHANGED <<doc, disk, objs, store, cache, prevText, timers, passes, npass, nedit, apiKey>>

NextFilter == Filter

SpecFilter == InitFilter /\ [][NextFilter]_vars

\* a line of code without a comment token: the scan does not pass it
IsBarrier(text) == Trim(text) # <<>> /\ ~Includes(text, Token)

\* a comment token is found for the target line (0-based): on it, or on one
\* of the 3 lines above it with no barrier between that line and the target
TokenFound(lines, target) ==
    \E d \in 0..3 :
        /\ target - d >= 0
        /\ Includes(lines[target - d + 1], Token)
        /\ \A e \in 1..(d - 1) : ~IsBarrier(lines[target - e + 1])

\* C23: the suggestions that come back are those for which no comment token
\* is found (all of them when the document cannot be read), in their order.
C23_DiscardsExplained ==
    rq.done =>
        rq.out = SelectSeq(rq.items,
                           LAMBDA o : ~(rq.opens /\ TokenFound(rq.lines, Clamp(o.line, Len(rq.lines)))))

\* C23 witness: of two suggestions the first was discarded for a comment
\* three lines above it, behind blank lines only, and the second was kept:
\* the line above it is code and the comment is four lines above.
C23_Witness ==
    /\ rq.done /\ rq.opens
    /\ rq.lines = <<LineXC, LineBlank, LineBlank, LineX, LineX>>
    /\ rq.items = <<[line |-> 3, anchor |-> <<>>], [line |-> 4, anchor |-> <<>>]>>
    /\ rq.out = <<[line |-> 4, anchor |-> <<>>]>>

(***************************************************************************)
(* SpecApply: SpecShared with the commands of the tree view and of the     *)
(* editor that apply a suggestion, and clear-all.                          *)
(***************************************************************************)
NextApply ==
    \/ NextShared
    \/ \E r \in 1..Len(objs) : applySuggestion(r)
    \/ \E f \in Files, line \in 0..(MaxLines - 1) : applySuggestionAtCursor(f, line)
    \/ clearAllSuggestions

SpecApply == InitShared /\ [][NextApply]_vars

\* the document of s.uri after the step: one line more, put in before the
\* target line clamp(s.line, 0, lineCount - 1); the line has the indentation
\* of the target line and then the comment token
C24_Inserted(r) ==
    LET f == objs[r].uri
        target == Clamp(objs[r].line, Len(doc[f]))
        new == doc'[f][target + 1]
    IN  /\ Len(doc'[f]) = Len(doc[f]) + 1
        /\ SubSeq(doc'[f], 1, target) = SubSeq(doc[f], 1, target)
        /\ SubSeq(doc'[f], target + 2, Len(doc'[f])) = SubSeq(doc[f], target + 1, Len(doc[f]))
        /\ IndentOf(new) = IndentOf(doc[f][target + 1])
        /\ StartsWith(TrimStart(new), Token)

\* C24: every step that applies a suggestion s inserts one comment line
\* before line clamp(s.line, 0, lineCount - 1) of s.uri, indented as that
\* line, marks s applied and leaves the number of records stored for s.uri
\* as it was.
C24_ApplyInsertsAndMarks ==
    [][\A r \in 1..Len(objs) :
          ApplyRef(r) =>
              /\ C24_Inserted(r)
              /\ objs'[r].applied
              /\ Len(store'[objs[r].uri]) = Len(store[objs[r].uri])]_vars

(***************************************************************************)
(* parseLLMResponse and the try / catch of analyzeWithLLM around it.       *)
(* A JSON value is kept as its kind k (absent: the key is not there) with  *)
(* its number n or its text s.  A payload is the text of the completion,   *)
(* kept as its shape and the elements JSON.parse finds in it:              *)
(*   array    a JSON array                                                 *)
(*   items    a JSON object whose `items` is an array                      *)
(*   prose    text around a JSON array (second try of tryParseJSON)        *)
(*   objects  no array; the {...} pieces of the text, parsed one by one    *)
(*   garbage  nothing that parses                                          *)
(***************************************************************************)
Absent == [k |-> "absent", n |-> 0, s |-> ""]
JsNull == [k |-> "null", n |-> 0, s |-> ""]
JsNumber(n) == [k |-> "number", n |-> n, s |-> ""]
JsString(s) == [k |-> "string", n |-> 0, s |-> s]

FallbackMessage == "Why?"
FallbackComment == "Explain the intent and constraints."

\* the JSON values that are no objects have no property; null has none to read
JsObject(line, message, comment, anchor) ==
    [kind |-> "object", line |-> line, message |-> message, suggestedComment |-> comment,
     anchor |-> anchor]
JsNumberElement == [kind |-> "number", line |-> Absent, message |-> Absent,
                    suggestedComment |-> Absent, anchor |-> Absent]
JsNullElement == [kind |-> "null", line |-> Absent, message |-> Absent,
                  suggestedComment |-> Absent, anchor |-> Absent]

\* String(v ?? fallback)
StringOr(v, fallback) == IF v.k \in {"absent", "null"} THEN fallback ELSE v.s

\* the suggestion built for one element of the array (id, uri, source and
\* createdAt aside)
SuggestionOf(it) ==
    [line |-> IF it.line.k = "number" THEN it.line.n ELSE 0,
     message |-> StringOr(it.message, FallbackMessage),
     suggestedComment |-> StringOr(it.suggestedComment, FallbackComment),
     anchor |-> IF it.anchor.k = "string" THEN it.anchor ELSE Absent]

\* o && typeof o === 'object' && ('line' in o || 'suggestedComment' in o)
LooksLikeCandidate(o) ==
    o.kind = "object" /\ (o.line.k # "absent" \/ o.suggestedComment.k # "absent")

\* the array the loop of parseLLMResponse runs over
ParsedArray(payload) ==
    IF payload.shape \in {"array", "items", "prose"} THEN payload.elems
    ELSE IF payload.shape = "objects" THEN SelectSeq(payload.elems, LooksLikeCandidate)
    ELSE <<>>

\* parseLLMResponse: reading it.line of null is a TypeError
parseLLMResponse(payload) ==
    LET arr == ParsedArray(payload)
    IN  IF \E i \in 1..Len(arr) : arr[i].kind = "null"
        THEN [threw |-> TRUE, out |-> <<>>]
        ELSE [threw |-> FALSE, out |-> [i \in 1..Len(arr) |-> SuggestionOf(arr[i])]]

\* analyzeWithLLM from the completion on: the catch warns and returns []
CompletionToSuggestions(payload) ==
    LET res == parseLLMResponse(payload)
    IN  IF res.threw THEN <<>> ELSE res.out

(***************************************************************************)
(* SpecPayload: every payload of up to PayloadItems elements.              *)
(***************************************************************************)
PayloadItems == 2

LineValues == {Absent, JsNull, JsNumber(2), JsString("2")}
MessageValues == {Absent, JsNull, JsString("m")}
CommentValues == {Absent, JsString("c")}
AnchorValues == {Absent, JsString("x"), JsNumber(1)}
PayloadElements ==
    {JsObject(l, m, c, a) : l \in LineValues, m \in MessageValues, c \in CommentValues,
                            a \in AnchorValues}
    \cup {JsNumberElement, JsNullElement}
Payloads ==
    {[shape |-> sh, elems |-> e] :
        sh \in {"array", "items", "prose"}, e \in UNION {[1..n -> PayloadElements] : n \in 0..PayloadItems}}
    \cup {[shape |-> "objects", elems |-> e] :
             e \in UNION {[1..n -> {o \in PayloadElements : o.kind = "object"}] : n \in 1..PayloadItems}}
    \cup {[shape |-> "garbage", elems |-> <<>>]}

InitPayload ==
    /\ doc = [f \in Files |-> WorkText]
    /\ disk = [f \in Files |-> WorkText]
    /\ objs = <<>>
    /\ store = [f \in Files |-> <<>>]
    /\ cache = {}
    /\ prevText = [f \in Files |-> <<>>]
    /\ timers = [f \in Files |-> NoTimer]
    /\ passes = EmptyBag
    /\ npass = 0
    /\ nedit = 0
    /\ apiKey = SomeKey
    /\ \E payload \in Payloads :
          rq = [lines |-> <<>>, opens |-> TRUE, items |-> payload, out |-> <<>>, done |-> FALSE]

CompletionArrives ==
    /\ ~rq.done
    /\ rq' = [rq EXCEPT !.out = CompletionToSuggestions(rq.items), !.done = TRUE]
    /\ UNCHANGED <<doc, disk, objs, store, cache, prevText, timers, passes, npass, nedit, apiKey>>

NextPayload == CompletionArrives

SpecPayload == InitPayload /\ [][NextPayload]_vars

\* the candidates of a payload: the elements of its array or, when the text
\* holds no array, its {...} pieces with a line or a suggestedComment
CandidatesOf(payload) ==
    IF payload.shape = "objects"
    THEN SelectSeq(payload.elems, LAMBDA o : o.line.k # "absent" \/ o.suggestedComment.k # "absent")
    ELSE payload.elems

\* C25: analyzeWithLLM returns one suggestion for each candidate of the
\* payload, in order (none for a payload that does not parse): its line is
\* the candidate's when that is a number and 0 otherwise, its message and its
\* suggestedComment are the fallback texts when the candidate has none, and
\* it has an anchor only when the candidate's is a string.
C25_OnePerCandidateWithDefaults ==
    rq.done =>
        LET cand == CandidatesOf(rq.items)
        IN  /\ Len(rq.out) = Len(cand)
            /\ \A i \in 1..Len(cand) :
                  /\ rq.out[i].line = (IF cand[i].line.k = "number" THEN cand[i].line.n ELSE 0)
                  /\ cand[i].message.k = "absent" => rq.out[i].message = FallbackMessage
                  /\ cand[i].suggestedComment.k = "absent"
                        => rq.out[i].suggestedComment = FallbackComment
                  /\ cand[i].anchor.k # "string" <=> rq.out[i].anchor = Absent

\* C26: while the API key is empty or white space only, no call of the
\* analyzer is under way, whichever trigger started the pass.
C26_NoKeyNoCall ==
    Trim(apiKey) = <<>> => \A p \in BagToSet(passes) : p.stage # "llm"

\* C26 witness: the key is white space only; a pass of f obtained a diff
\* with an added line, ended without the analyzer and left the snapshot and
\* an empty cache entry for that diff.
C26_Witness ==
    /\ apiKey = <<" ">>
    /\ npass = 1 /\ passes = EmptyBag
    /\ prevText["f"] = <<WorkText>>
    /\ \E e \in cache : annotateDiffWithNewLines(e[1]) # <<>> /\ e[2] = <<>>

(***************************************************************************)
(* The lookups of the span that contains a line.  A span is a record       *)
(* [name, startLine, endLine, type]; a lookup returns <<>> for undefined   *)
(* and <<span>> otherwise.                                                 *)
(***************************************************************************)
Covers(b, lineNumber) == lineNumber >= b.startLine /\ lineNumber <= b.endLine

\* the loop of findContainingBoundary: best = <<>> stands for
\* smallestRange = Infinity
RECURSIVE BoundaryWalk(_, _, _, _)
BoundaryWalk(boundaries, i, lineNumber, best) ==
    IF i > Len(boundaries) THEN best
    ELSE LET boundary == boundaries[i]
             range == boundary.endLine - boundary.startLine
         IN  IF /\ Covers(boundary, lineNumber)
                /\ (best = <<>> \/ range < best[1].endLine - best[1].startLine)
             THEN BoundaryWalk(boundaries, i + 1, lineNumber, <<boundary>>)
             ELSE BoundaryWalk(boundaries, i + 1, lineNumber, best)

findContainingBoundary(lineNumber, boundaries) == BoundaryWalk(boundaries, 1, lineNumber, <<>>)

\* Array.prototype.find: the first element whose index is among those that
\* pass the test
find(xs, passing) ==
    IF passing = {} THEN <<>> ELSE <<xs[CHOOSE i \in passing : \A j \in passing : i <= j]>>

\* && binds tighter than ||: a span of type function passes the test
\* whatever the line
findContainingFunction(functions, lineNumber) ==
    find(functions,
         {i \in 1..Len(functions) :
             \/ functions[i].type = "function"
             \/ (functions[i].type = "method" /\ Covers(functions[i], lineNumber))})

findContainingClass(functions, lineNumber) ==
    find(functions,
         {i \in 1..Len(functions) : functions[i].type = "class" /\ Covers(functions[i], lineNumber)})

(***************************************************************************)
(* SpecBoundary: the three lookups alone, on every list of up to           *)
(* BoundaryCount spans over the lines 1..LastLine in the order the         *)
(* detectors push them (by header line, one header per line), and on every *)
(* line number up to one past LastLine.                                    *)
(***************************************************************************)
BoundaryCount == 2
LastLine == 3

SpanTypes == {"function", "method", "class"}
SpansAt(i) == {[name |-> ToString(i), startLine |-> s, endLine |-> e, type |-> t] :
                  s \in 1..LastLine, e \in 1..LastLine, t \in SpanTypes}
SpanLists ==
    UNION {{bs \in [1..n -> UNION {SpansAt(i) : i \in 1..n}] :
              /\ \A i \in 1..n : bs[i] \in SpansAt(i) /\ bs[i].startLine <= bs[i].endLine
              /\ \A i \in 1..(n - 1) : bs[i].startLine < bs[i + 1].startLine} :
           n \in 0..BoundaryCount}

InitBoundary ==
    /\ doc = [f \in Files |-> WorkText]
    /\ disk = [f \in Files |-> WorkText]
    /\ objs = <<>>
    /\ store = [f \in Files |-> <<>>]
    /\ cache = {}
    /\ prevText = [f \in Files |-> <<>>]
    /\ timers = [f \in Files |-> NoTimer]
    /\ passes = EmptyBag
    /\ npass = 0
    /\ nedit = 0
    /\ apiKey = SomeKey
    /\ \E bs \in SpanLists :
          rq = [lines |-> <<>>, opens |-> TRUE, items |-> bs, out |-> <<>>, done |-> FALSE]

LookupRuns(lookup, lineNumber, result) ==
    /\ ~rq.done
    /\ rq' = [rq EXCEPT !.out = [lookup |-> lookup, lineNumber |-> lineNumber, result |-> result],
                        !.done = TRUE]
    /\ UNCHANGED <<doc, disk, objs, store, cache, prevText, timers, passes, npass, nedit, apiKey>>

NextBoundary ==
    \E lineNumber \in 1..(LastLine + 1) :
       \/ LookupRuns("findContainingBoundary", lineNumber, findContainingBoundary(lineNumber, rq.items))
       \/ LookupRuns("findContainingFunction", lineNumber, findContainingFunction(rq.items, lineNumber))
       \/ LookupRuns("findContainingClass", lineNumber, findContainingClass(rq.items, lineNumber))

SpecBoundary == InitBoundary /\ [][NextBoundary]_vars

\* the types a lookup is asked for
RequestedTypes(lookup) ==
    CASE lookup = "findContainingFunction" -> {"function", "method"}
      [] lookup = "findContainingClass" -> {"class"}
      [] OTHER -> SpanTypes

SpanRange(b) == b.endLine - b.startLine

\* the spans of the list that cover the line and have one of the types
CoveringSpans(bs, lineNumber, types) ==
    {bs[i] : i \in {j \in 1..Len(bs) : bs[j].type \in types /\ Covers(bs[j], lineNumber)}}

\* C27: a lookup returns nothing when no span of the requested types covers
\* the line; otherwise it returns one of those spans, and none of them has a
\* smaller endLine - startLine.
C27_NarrowestCoveringSpan ==
    rq.done =>
        LET cov == CoveringSpans(rq.items, rq.out.lineNumber, RequestedTypes(rq.out.lookup))
            res == rq.out.result
        IN  IF cov = {} THEN res = <<>>
            ELSE /\ res # <<>>
                 /\ res[1] \in cov
                 /\ \A b \in cov : SpanRange(res[1]) <= SpanRange(b)

\* C28: when findContainingBoundary returns a class, no function or method
\* covering the line has the same endLine - startLine.
C28_TiePrefersFunction ==
    (rq.done /\ rq.out.lookup = "findContainingBoundary" /\ rq.out.result # <<>>) =>
        LET res == rq.out.result[1]
        IN  res.type = "class" =>
               \A b \in CoveringSpans(rq.items, rq.out.lineNumber, {"function", "method"}) :
                   SpanRange(b) # SpanRange(res)

(***************************************************************************)
(* PythonParser.  A line is a sequence of characters in which a header     *)
(* "def f():" is the one element DefF, a header "class C:" the one element *)
(* ClassC and a triple quote the one element Quotes.  Lines are numbered   *)
(* from 0.                                                                 *)
(***************************************************************************)
DefF == "def f():"
ClassC == "class C:"
Quotes == "'''"

\* String.prototype.endsWith
EndsWith(s, p) == Len(p) <= Len(s) /\ SubSeq(s, Len(s) - Len(p) + 1, Len(s)) = p

\* isCommentLine of the Python parser
isCommentLine(line) ==
    LET trimmed == Trim(line)
    IN  \/ StartsWith(trimmed, Token)
        \/ StartsWith(trimmed, <<Quotes>>)
        \/ EndsWith(trimmed, <<Quotes>>)

\* indent += 4
TabWidth == 4

\* getIndentLevel with a tab counted as one column
RECURSIVE getIndentLevelTabAsOne(_)
getIndentLevelTabAsOne(line) ==
    IF line = <<>> THEN 0
    ELSE IF Head(line) = " " THEN 1 + getIndentLevelTabAsOne(Tail(line))
    ELSE IF Head(line) = "\t" THEN 1 + getIndentLevelTabAsOne(Tail(line))
    ELSE 0

RECURSIVE getIndentLevel(_)
getIndentLevel(line) ==
    IF line = <<>> THEN 0
    ELSE IF Head(line) = " " THEN 1 + getIndentLevel(Tail(line))
    ELSE IF Head(line) = "\t" THEN TabWidth + getIndentLevel(Tail(line))
    ELSE 0

\* the loop of findPythonBlockEnd from index i on
RECURSIVE PythonBlockWalk(_, _, _)
PythonBlockWalk(lines, i, startIndent) ==
    IF i >= Len(lines) THEN Len(lines) - 1
    ELSE LET line == lines[i + 1]
         IN  IF Trim(line) = <<>> \/ isCommentLine(line)
             THEN PythonBlockWalk(lines, i + 1, startIndent)
             ELSE IF getIndentLevel(line) <= startIndent THEN i - 1
             ELSE PythonBlockWalk(lines, i + 1, startIndent)

findPythonBlockEnd(lines, startLine) ==
    PythonBlockWalk(lines, startLine + 1, getIndentLevel(lines[startLine + 1]))

\* /^\s*class\s+([a-zA-Z_][a-zA-Z0-9_]*)/ and /^\s*(?:async\s+)?def\s+(...)\s*\(/
classPattern(line) == StartsWith(TrimStart(line), <<ClassC>>)
functionPattern(line) == StartsWith(TrimStart(line), <<DefF>>)

isInClass(functions, lineNumber) ==
    \E k \in 1..Len(functions) :
        /\ functions[k].type = "class"
        /\ lineNumber > functions[k].startLine
        /\ lineNumber <= functions[k].endLine

\* the loop of parseFunctions from index i on
RECURSIVE PythonWalk(_, _, _)
PythonWalk(lines, i, functions) ==
    IF i >= Len(lines) THEN functions
    ELSE LET line == lines[i + 1]
             withClass ==
                 IF classPattern(line)
                 THEN Append(functions, [name |-> "C", startLine |-> i,
                                         endLine |-> findPythonBlockEnd(lines, i), type |-> "class"])
                 ELSE functions
             withFunc ==
                 IF functionPattern(line)
                 THEN Append(withClass, [name |-> "f", startLine |-> i,
                                         endLine |-> findPythonBlockEnd(lines, i),
                                         type |-> IF isInClass(withClass, i) THEN "method" ELSE "function"])
                 ELSE withClass
         IN  PythonWalk(lines, i + 1, withFunc)

parsePythonFunctions(lines) == PythonWalk(lines, 0, <<>>)

(***************************************************************************)
(* SpecPython: the Python parser alone, on every file of up to PyLines     *)
(* lines; a line is one of the indentations of PyIndents followed by one   *)
(* of the texts of PyTexts.                                                *)
(***************************************************************************)
PyLines == 3

FourSpaces == <<" ", " ", " ", " ">>
PyIndents == {<<>>, <<"\t">>, FourSpaces}
PyTexts == {<<>>, <<DefF>>, <<ClassC>>, <<"x">>, <<"#">>, <<"x", Quotes>>}
PyLineValues == {ind \o text : ind \in PyIndents, text \in PyTexts}
PyFiles == UNION {[1..n -> PyLineValues] : n \in 1..PyLines}

\* ["def f():", "    x = 1", "y = 2"]
PyExample == << <<DefF>>, FourSpaces \o <<"x">>, <<"x">> >>

InitPython ==
    /\ doc = [f \in Files |-> WorkText]
    /\ disk = [f \in Files |-> WorkText]
    /\ objs = <<>>
    /\ store = [f \in Files |-> <<>>]
    /\ cache = {}
    /\ prevText = [f \in Files |-> <<>>]
    /\ timers = [f \in Files |-> NoTimer]
    /\ passes = EmptyBag
    /\ npass = 0
    /\ nedit = 0
    /\ apiKey = SomeKey
    /\ \E lines \in PyFiles :
          rq = [lines |-> lines, opens |-> TRUE, items |-> <<>>, out |-> <<>>, done |-> FALSE]

ParsePython ==
    /\ ~rq.done
    /\ rq' = [rq EXCEPT !.out = parsePythonFunctions(rq.lines), !.done = TRUE]
    /\ UNCHANGED <<doc, disk, objs, store, cache, prevText, timers, passes, npass, nedit, apiKey>>

NextPython == ParsePython

SpecPython == InitPython /\ [][NextPython]_vars

\* the columns of the indentation of a line, a tab counting as 4
LeadingColumns(line) ==
    LET k == Len(line) - Len(TrimStart(line))
    IN  k + 3 * Cardinality({i \in 1..k : line[i] = "\t"})

\* the lines (from 0) that are class or def headers
PyHeaders(lines) ==
    {h \in 0..(Len(lines) - 1) : \E ind \in PyIndents : lines[h + 1] \in {ind \o <<DefF>>, ind \o <<ClassC>>}}

\* the lines after h that end the block of h: not blank, not a comment,
\* indented at most as h
PyEnders(lines, h) ==
    {j \in (h + 1)..(Len(lines) - 1) :
        /\ Trim(lines[j + 1]) # <<>>
        /\ ~isCommentLine(lines[j + 1])
        /\ LeadingColumns(lines[j + 1]) <= LeadingColumns(lines[h + 1])}

PyBlockEnd(lines, h) ==
    IF PyEnders(lines, h) = {} THEN Len(lines) - 1
    ELSE (CHOOSE j \in PyEnders(lines, h) : \A k \in PyEnders(lines, h) : j <= k) - 1

\* C29: the parser returns one span for each class or def header, in the
\* order of the lines; the span of the header at line h starts at h and ends
\* at the line before the first later line that is not blank, not a comment
\* and indented at most as the header (a tab counting as 4 columns), or at
\* the last line of the file when there is none.  For the file "def f():",
\* "    x = 1", "y = 2" that is the one span f from line 0 to line 1.
C29_IndentationBlockEnd ==
    rq.done =>
        LET hs == SortedSeq(PyHeaders(rq.lines))
        IN  /\ Len(rq.out) = Len(hs)
            /\ \A k \in 1..Len(hs) :
                  /\ rq.out[k].startLine = hs[k]
                  /\ rq.out[k].endLine = PyBlockEnd(rq.lines, hs[k])
                  /\ rq.out[k].name = (IF functionPattern(rq.lines[hs[k] + 1]) THEN "f" ELSE "C")
            /\ rq.lines = PyExample =>
                  rq.out = <<[name |-> "f", startLine |-> 0, endLine |-> 1, type |-> "function"]>>

\* C29 witness: a def header indented by a tab, a comment at column 0, which
\* does not end its block, and a line indented by four spaces, which does.
C29_Witness ==
    /\ rq.done
    /\ rq.lines = << <<"\t", DefF>>, <<"#">>, FourSpaces \o <<"x">> >>
    /\ Len(rq.out) = 1
    /\ rq.out[1].endLine = 1

(***************************************************************************)
(* The end of a brace-delimited block: findBlockEnd of the parsers (lines  *)
(* from 0) and findClosingBrace of the boundary detectors (the index of    *)
(* the header from 0, the result from 1).                                  *)
(***************************************************************************)
\* the characters of the lines from index i on, each with its index
RECURSIVE CharsFrom(_, _)
CharsFrom(lines, i) ==
    IF i >= Len(lines) THEN <<>>
    ELSE [k \in 1..Len(lines[i + 1]) |-> [line |-> i, char |-> lines[i + 1][k]]] \o CharsFrom(lines, i + 1)

\* the two nested loops of findBlockEnd over the characters left
RECURSIVE BlockEndWalk(_, _, _, _)
BlockEndWalk(chars, bracketCount, foundStart, lineCount) ==
    IF chars = <<>> THEN lineCount - 1
    ELSE LET c == Head(chars)
         IN  IF c.char = "{" THEN BlockEndWalk(Tail(chars), bracketCount + 1, TRUE, lineCount)
             ELSE IF c.char = "}" /\ foundStart
                  THEN IF bracketCount - 1 = 0 THEN c.line
                       ELSE BlockEndWalk(Tail(chars), bracketCount - 1, foundStart, lineCount)
             ELSE BlockEndWalk(Tail(chars), bracketCount, foundStart, lineCount)

findBlockEnd(lines, startLine) == BlockEndWalk(CharsFrom(lines, startLine), 0, FALSE, Len(lines))

\* the two nested loops of findClosingBrace over the characters left
RECURSIVE ClosingBraceWalk(_, _, _, _)
ClosingBraceWalk(chars, braceCount, foundOpeningBrace, lineCount) ==
    IF chars = <<>> THEN lineCount
    ELSE LET c == Head(chars)
         IN  IF c.char = "{" THEN ClosingBraceWalk(Tail(chars), braceCount + 1, TRUE, lineCount)
             ELSE IF c.char = "}"
                  THEN IF foundOpeningBrace /\ braceCount - 1 = 0 THEN c.line + 1
                       ELSE ClosingBraceWalk(Tail(chars), braceCount - 1, foundOpeningBrace, lineCount)
             ELSE ClosingBraceWalk(Tail(chars), braceCount, foundOpeningBrace, lineCount)

findClosingBrace(lines, startLine) == ClosingBraceWalk(CharsFrom(lines, startLine), 0, FALSE, Len(lines))

(***************************************************************************)
(* SpecBrace: the two block-end scans alone, on every file of up to        *)
(* BraceLines lines of up to two braces or other text, from every line of  *)
(* the file as the header line.                                            *)
(***************************************************************************)
BraceLines == 4

BraceTexts == {<<"x">>, <<"{">>, <<"}">>, <<"{", "}">>, <<"}", "{">>, <<"{", "{">>, <<"}", "}">>}
BraceFiles == UNION {[1..n -> BraceTexts] : n \in 1..BraceLines}

InitBrace ==
    /\ doc = [f \in Files |-> WorkText]
    /\ disk = [f \in Files |-> WorkText]
    /\ objs = <<>>
    /\ store = [f \in Files |-> <<>>]
    /\ cache = {}
    /\ prevText = [f \in Files |-> <<>>]
    /\ timers = [f \in Files |-> NoTimer]
    /\ passes = EmptyBag
    /\ npass = 0
    /\ nedit = 0
    /\ apiKey = SomeKey
    /\ \E lines \in BraceFiles :
          rq = [lines |-> lines, opens |-> TRUE, items |-> <<>>, out |-> <<>>, done |-> FALSE]

\* a scan from the header line startLine (from 0); endLine is its result
\* as a line number from 0
ScanRuns(scan, startLine, endLine) ==
    /\ ~rq.done
    /\ rq' = [rq EXCEPT !.out = [scan |-> scan, startLine |-> startLine, endLine |-> endLine],
                        !.done = TRUE]
    /\ UNCHANGED <<doc, disk, objs, store, cache, prevText, timers, passes, npass, nedit, apiKey>>

NextBrace ==
    \E startLine \in 0..(Len(rq.lines) - 1) :
       \/ ScanRuns("findBlockEnd", startLine, findBlockEnd(rq.lines, startLine))
       \/ ScanRuns("findClosingBrace", startLine, findClosingBrace(rq.lines, startLine) - 1)

SpecBrace == InitBrace /\ [][NextBrace]_vars

\* the positions of chars at which the count of "{" minus "}", taken from
\* the first "{" on, is back at zero
BalancedAt(chars) ==
    LET opens == {p \in 1..Len(chars) : chars[p].char = "{"}
    IN  IF opens = {} THEN {}
        ELSE LET first == CHOOSE p \in opens : \A q \in opens : p <= q
             IN  {p \in first..Len(chars) :
                     Cardinality({q \in first..p : chars[q].char = "{"})
                        = Cardinality({q \in first..p : chars[q].char = "}"})}

\* C30: the end of the block of a header line is the first line on which
\* the count of "{" minus "}", counted from the first "{" at or after the
\* header line, is back at zero, and the last line of the file when it
\* never is; it is never before the header line.
C30_BraceBlockEnd ==
    rq.done =>
        LET chars == CharsFrom(rq.lines, rq.out.startLine)
            back == BalancedAt(chars)
        IN  /\ rq.out.endLine =
                  (IF back = {} THEN Len(rq.lines) - 1
                   ELSE chars[CHOOSE p \in back : \A q \in back : p <= q].line)
            /\ rq.out.startLine <= rq.out.endLine

(***************************************************************************)
(* The end of a method in the Java parser and of a function in the         *)
(* TypeScript parser.  In a header line the name with its parameter list   *)
(* is the one element Decl and the arrow the one element "=>".             *)
(***************************************************************************)
Decl == "m()"

\* JavaParser.findMethodEnd
findMethodEnd(lines, startLine) ==
    LET startingLine == lines[startLine + 1]
    IN  IF Includes(startingLine, <<";">>) /\ ~Includes(startingLine, <<"{">>) THEN startLine
        ELSE findBlockEnd(lines, startLine)

\* TypeScriptParser.findFunctionEnd
findFunctionEnd(lines, startLine) ==
    LET startingLine == lines[startLine + 1]
    IN  IF Includes(startingLine, <<"=>">>) /\ ~Includes(startingLine, <<"{">>) THEN startLine
        ELSE findBlockEnd(lines, startLine)

(***************************************************************************)
(* SpecDecl: the two scans alone, on every file of up to DeclLines lines   *)
(* (a signature "m();", a header "m() {", a one-line arrow function, a     *)
(* one-line body, a closing brace, a statement), from every line that      *)
(* holds a declaration.                                                     *)
(***************************************************************************)
DeclLines == 3

DeclTexts == {<<Decl, ";">>, <<Decl, "{">>, <<Decl, "=>", "x">>, <<Decl, "{", "}">>, <<"}">>, <<"x", ";">>}
DeclFiles == UNION {[1..n -> DeclTexts] : n \in 1..DeclLines}

InitDecl ==
    /\ doc = [f \in Files |-> WorkText]
    /\ disk = [f \in Files |-> WorkText]
    /\ objs = <<>>
    /\ store = [f \in Files |-> <<>>]
    /\ cache = {}
    /\ prevText = [f \in Files |-> <<>>]
    /\ timers = [f \in Files |-> NoTimer]
    /\ passes = EmptyBag
    /\ npass = 0
    /\ nedit = 0
    /\ apiKey = SomeKey
    /\ \E lines \in DeclFiles :
          rq = [lines |-> lines, opens |-> TRUE, items |-> <<>>, out |-> <<>>, done |-> FALSE]

\* the header patterns match the line startLine (from 0)
DeclRuns(parser, startLine, endLine) ==
    /\ ~rq.done
    /\ StartsWith(rq.lines[startLine + 1], <<Decl>>)
    /\ rq' = [rq EXCEPT !.out = [parser |-> parser, startLine |-> startLine, endLine |-> endLine],
                        !.done = TRUE]
    /\ UNCHANGED <<doc, disk, objs, store, cache, prevText, timers, passes, npass, nedit, apiKey>>

NextDecl ==
    \E startLine \in 0..(Len(rq.lines) - 1) :
       \/ DeclRuns("java", startLine, findMethodEnd(rq.lines, startLine))
       \/ DeclRuns("typescript", startLine, findFunctionEnd(rq.lines, startLine))

SpecDecl == InitDecl /\ [][NextDecl]_vars

\* C31: the span of a declaration whose header line ends in ";" and holds
\* no "{" ends at the header line, whatever follows.
C31_BodilessEndsAtHeader ==
    rq.done =>
        LET header == rq.lines[rq.out.startLine + 1]
        IN  (EndsWith(header, <<";">>) /\ ~Includes(header, <<"{">>))
               => rq.out.endLine = rq.out.startLine

(***************************************************************************)
(* ContextExtractionService.extractContext: the context lines of each     *)
(* change.  A change is a record [lineNumber, type], lineNumber from 1.    *)
(***************************************************************************)
\* Array.prototype.slice(a, b) for 0 <= a
Slice(xs, a, b) == SubSeq(xs, a + 1, Min(b, Len(xs)))

\* the end of the context with the changed line counted in
ContextAfterEndAtLine(lineIndex, contextLines, lineCount) == Min(lineCount, lineIndex + contextLines)

\* Math.min(lines.length, lineIndex + this.contextLines + 1)
ContextAfterEnd(lineIndex, contextLines, lineCount) == Min(lineCount, lineIndex + contextLines + 1)

ContextOf(lines, change, contextLines) ==
    IF change.type = "deleted"
    THEN [changeType |-> change.type, lineNumber |-> change.lineNumber,
          contextBefore |-> <<>>, contextAfter |-> <<>>]
    ELSE LET lineIndex == change.lineNumber - 1
             contextBeforeStart == Max(0, lineIndex - contextLines)
         IN  [changeType |-> change.type, lineNumber |-> change.lineNumber,
              contextBefore |-> Slice(lines, contextBeforeStart, lineIndex),
              contextAfter |-> Slice(lines, lineIndex + 1,
                                     ContextAfterEnd(lineIndex, contextLines, Len(lines)))]

extractContext(lines, changes, contextLines) ==
    [i \in 1..Len(changes) |-> ContextOf(lines, changes[i], contextLines)]

(***************************************************************************)
(* SpecContext: extractContext alone, on files of 1..CtxLines lines that   *)
(* all differ, up to CtxChanges changes (a deleted one may name a line     *)
(* past the end of the file) and a context size of 0..CtxSize.             *)
(***************************************************************************)
CtxLines == 4
CtxChanges == 2
CtxSize == 2

CtxFile(n) == [i \in 1..n |-> <<ToString(i)>>]
CtxChange(n) ==
    [lineNumber : 1..n, type : {"added", "modified"}] \cup [lineNumber : 1..(n + 1), type : {"deleted"}]

InitContext ==
    /\ doc = [f \in Files |-> WorkText]
    /\ disk = [f \in Files |-> WorkText]
    /\ objs = <<>>
    /\ store = [f \in Files |-> <<>>]
    /\ cache = {}
    /\ prevText = [f \in Files |-> <<>>]
    /\ timers = [f \in Files |-> NoTimer]
    /\ passes = EmptyBag
    /\ npass = 0
    /\ nedit = 0
    /\ apiKey = SomeKey
    /\ \E n \in 1..CtxLines, k \in 0..CtxChanges :
          \E changes \in [1..k -> CtxChange(n)] :
             rq = [lines |-> CtxFile(n), opens |-> TRUE, items |-> changes, out |-> <<>>, done |-> FALSE]

ExtractContext(contextLines) ==
    /\ ~rq.done
    /\ rq' = [rq EXCEPT !.out = [contextLines |-> contextLines,
                                 result |-> extractContext(rq.lines, rq.items, contextLines)],
                        !.done = TRUE]
    /\ UNCHANGED <<doc, disk, objs, store, cache, prevText, timers, passes, npass, nedit, apiKey>>

NextContext == \E contextLines \in 0..CtxSize : ExtractContext(contextLines)

SpecContext == InitContext /\ [][NextContext]_vars

\* C32: extractContext returns one entry per change, in order; for an
\* added or modified change at line n (from 1) of N lines with context size
\* c, contextBefore is the min(c, n - 1) lines directly above line n and
\* contextAfter the min(c, N - n) lines directly below it, neither holding
\* line n; for a deleted change both are empty.
C32_ContextWindow ==
    rq.done =>
        LET res == rq.out.result
            c == rq.out.contextLines
            N == Len(rq.lines)
        IN  /\ Len(res) = Len(rq.items)
            /\ \A i \in 1..Len(rq.items) :
                  LET n == rq.items[i].lineNumber
                      above == Min(c, n - 1)
                      below == Min(c, N - n)
                  IN  /\ res[i].lineNumber = n
                      /\ res[i].changeType = rq.items[i].type
                      /\ IF rq.items[i].type = "deleted"
                         THEN res[i].contextBefore = <<>> /\ res[i].contextAfter = <<>>
                         ELSE /\ res[i].contextBefore = [j \in 1..above |-> rq.lines[n - above - 1 + j]]
                              /\ res[i].contextAfter = [j \in 1..below |-> rq.lines[n + j]]
                              /\ \A j \in 1..above : res[i].contextBefore[j] # rq.lines[n]
                              /\ \A j \in 1..below : res[i].contextAfter[j] # rq.lines[n]

\* C32 witness: context size 2 on a file of 4 lines; a modified line 2 has
\* one line above and two below, a line deleted past the end has none.
C32_Witness ==
    /\ rq.done
    /\ rq.out.contextLines = 2
    /\ Len(rq.lines) = 4
    /\ rq.items = <<[lineNumber |-> 2, type |-> "modified"], [lineNumber |-> 5, type |-> "deleted"]>>
    /\ Len(rq.out.result[1].contextBefore) = 1
    /\ Len(rq.out.result[1].contextAfter) = 2
    /\ rq.out.result[2].contextAfter = <<>>

\* the calls of the analyzer for the diff text d that passes of analyzeUri
\* are waiting for
CallsUnderWay(bag, d) ==
    {p \in BagToSet(bag) : p.kind = "uri" /\ p.stage = "llm" /\ p.diff = d}

\* C33: a pass of analyzeUri calls the analyzer for a diff text only when
\* the cache holds no result for that text and no other pass is waiting for
\* the analyzer with the same text; the cache never loses a text.  So the
\* analyzer is called at most once for each diff text.
C33_OneCallPerDiff ==
    [][/\ \A p \in BagToSet(passes') :
             (p.kind = "uri" /\ p.stage = "llm" /\ CopiesIn(p, passes') > CopiesIn(p, passes))
                => /\ ~CacheHas(p.diff)
                   /\ CallsUnderWay(passes, p.diff) = {}
       /\ \A e \in cache : \E e2 \in cache' : e2[1] = e[1]]_vars

\* C34: every suggestion in the slot of file f of the store was created for
\* f (its uri is f).
C34_SlotHoldsOwnFile ==
    \A f \in Files : \A i \in 1..Len(store[f]) : objs[store[f][i]].uri = f

\* the line numbers (from 0) of the entries annotateDiffWithNewLines shows
ShownLines(diff) ==
    LET shown == annotateDiffWithNewLines(diff)
    IN  {shown[i][1] - 1 : i \in 1..Len(shown)}

\* C35: the set that addedLinesFromUnifiedDiff returns for a diff is the set
\* of the line numbers annotateDiffWithNewLines shows for it, each reduced
\* by 1.
C35_WalkersAgree ==
    (rq.done /\ rq.out.parser = "addedLinesFromUnifiedDiff") => rq.out.result = ShownLines(rq.lines)

\* C36: when every active suggestion of the edited file is on a line of the
\* document before a change, every active suggestion of it is on a line of
\* the document after onDocChanged has processed the change (none below 0,
\* none past the last line).
C36_Post(f, start, end, k) ==
    (\A r \in Refs(store[f]) :
        IsActive(objs[r]) => (objs[r].line >= 0 /\ objs[r].line <= Len(doc[f]) - 1))
    => (\A r \in Refs(store'[f]) :
           IsActive(objs'[r]) => (objs'[r].line >= 0 /\ objs'[r].line <= Len(doc'[f]) - 1))

C36_EditsKeepLinesValid == [][AnyEdit(C36_Post)]_vars

\* C36 witness: lines 0..2 of a document of three lines were replaced by one
\* line; the active suggestion created for line 2 is on line 0, the only
\* line left.
C36_Witness ==
    /\ nedit = 1
    /\ Len(doc["f"]) = 1
    /\ Len(objs) = 3
    /\ IsActive(objs[2]) /\ objs[2].id[2] = 2 /\ objs[2].line = 0

\* C37: a record of a slot that is applied or ignored is, after any step,
\* either gone from the slot or followed by a record with the same id that
\* is applied or ignored as well: no step puts an active record with that id
\* into the slot.
C37_DismissedStaysDismissed ==
    [][\A f \in Files : \A r \in Refs(store[f]) :
          ~IsActive(objs[r]) =>
             \A r2 \in Refs(store'[f]) : objs'[r2].id = objs[r].id => ~IsActive(objs'[r2])]_vars

\* C38: the step of applySuggestion or ignoreSuggestion on a record is taken
\* only when the record is active, and no record is ever both applied and
\* ignored.
C38_OnlyActiveIsDismissed ==
    [][/\ \A r \in 1..Len(objs) : (ApplyRef(r) \/ IgnoreRef(r)) => IsActive(objs[r])
       /\ \A r \in 1..Len(objs') : ~(objs'[r].applied /\ objs'[r].ignored)]_vars

(***************************************************************************)
(* The save handler of the file-path keyed extension (extension.ts 24-51   *)
(* and 676-697): debounceTimers[filePath] keeps the handle until the       *)
(* `finally` of the fired callback deletes the entry.                      *)
(***************************************************************************)
SaveTimers == 2
SaveRuns == 2

\* if (debounceTimers[filePath]) clearTimeout(debounceTimers[filePath]):
\* the entry may hold a handle that has fired already, clearing it does nothing
ClearDebounceTimer(t) == IF t.entry # 0 THEN ClearTimeout(t) ELSE t

\* debounceTimers[filePath] = setTimeout(...): a handle that neither a
\* pending timer of the file nor the entry has
SetDebounceTimer(t) ==
    LET used == t.pending \cup {t.entry}
        h == CHOOSE n \in 1..(Cardinality(used) + 1) :
                 /\ n \notin used
                 /\ \A m \in 1..(n - 1) : m \in used
    IN  [pending |-> t.pending \cup {h}, entry |-> h]

\* delete debounceTimers[filePath]
DeleteDebounceTimer(t) == [t EXCEPT !.entry = 0]

\* onDidSaveTextDocument with autoAnalyze on
onDidSaveTextDocument(f) ==
    /\ Cardinality(ClearDebounceTimer(timers[f]).pending) < SaveTimers
    /\ timers' = [timers EXCEPT ![f] = SetDebounceTimer(ClearDebounceTimer(timers[f]))]
    /\ UNCHANGED <<doc, disk, objs, store, cache, prevText, passes, npass, nedit, apiKey, rq>>

\* the timer h of f fires: the callback calls analyzeFileChanges, which
\* returns at once when whycomment.enabled is off (the `finally` follows
\* before any other event) and otherwise waits for git
DebounceTimerFires(f, h, enabled) ==
    /\ h \in timers[f].pending
    /\ npass < SaveRuns
    /\ npass' = npass + 1
    /\ LET t == [timers[f] EXCEPT !.pending = timers[f].pending \ {h}]
       IN  IF enabled
           THEN /\ timers' = [timers EXCEPT ![f] = t]
                /\ passes' = Suspend(passes, Pass("file", f, <<>>, "git", <<>>, 0, 0))
           ELSE /\ timers' = [timers EXCEPT ![f] = DeleteDebounceTimer(t)]
                /\ passes' = passes
    /\ UNCHANGED <<doc, disk, objs, store, cache, prevText, nedit, apiKey, rq>>

\* analyzeFileChanges returns or throws: catch, then `finally`
AnalyzeFileChangesEnds(p) ==
    /\ BagIn(p, passes) /\ p.kind = "file"
    /\ passes' = Resume(passes, p)
    /\ timers' = [timers EXCEPT ![p.file] = DeleteDebounceTimer(timers[p.file])]
    /\ UNCHANGED <<doc, disk, objs, store, cache, prevText, npass, nedit, apiKey, rq>>

NextSave ==
    \/ \E f \in Files : onDidSaveTextDocument(f)
    \/ \E f \in Files, h \in 1..(SaveTimers + 1), enabled \in BOOLEAN : DebounceTimerFires(f, h, enabled)
    \/ \E p \in BagToSet(passes) : AnalyzeFileChangesEnds(p)

SpecSave == InitShared /\ [][NextSave]_vars

\* C39: under the save handler whose fired callback deletes the file's
\* entry in `finally`, a file never has more than one timer that is set and
\* has not fired, whether or not an analysis of the file is still running.
C39_OneTimerPerFile ==
    \A f \in Files : Cardinality(timers[f].pending) <= 1

\* the line that the insertion of one line before `target` gives a
\* suggestion of the document
MovedByInsertion(line, target) == IF line >= target THEN line + 1 ELSE line

\* C40: when applySuggestion has finished, every suggestion kept for the
\* file that was active on or below the insertion line, the applied one
\* included, is one line further down, and every active suggestion above
\* the insertion line is where it was.
C40_ApplyMovesByOne ==
    [][\A r \in 1..Len(objs) :
          (ApplyRef(r) /\ IsActive(objs[r])) =>
              LET f == objs[r].uri
                  target == Clamp(objs[r].line, Len(doc[f]))
              IN  \A q \in Refs(store[f]) \cup {r} :
                      IsActive(objs[q]) =>
                          objs'[q].line = MovedByInsertion(objs[q].line, target)]_vars
====
